---------------------------- MODULE Spec2Model ----------------------------
(***************************************************************************)
(* Verification model of the request-verification cache and audit          *)
(* pipeline of pangolin:                                                   *)
(*   - server/routers/badger/logRequestAudit.ts  (audit batcher)           *)
(*   - server/db/queries/verifySessionQueries.ts (cached lookups)          *)
(*   - server/lib/cache.ts                       (shared NodeCache)        *)
(*   - server/routers/user/getUser.ts and                                  *)
(*     server/routers/resource/getResourceAuthInfo.ts (cached endpoints)   *)
(*   - the redirect policy of verifySession.ts as quoted in the            *)
(*     investigation notes                                                 *)
(*                                                                         *)
(* JavaScript runs every handler to its next await without interleaving,   *)
(* so one action is the synchronous stretch of a handler between two       *)
(* suspension points; a storage call is a start step and a settle step.    *)
(***************************************************************************)
EXTENDS Integers, Sequences, FiniteSets, Bags, TLC

(***************************************************************************)
(* Bounds of the model.                                                    *)
(***************************************************************************)
\* Events of the environment in one behaviour: decisions that reach the push
\* of logRequestAudit, bulk inserts the storage rejects, retention queries
\* that settle, advances of the clock.
MaxEvents == 6
\* Events of the environment in one behaviour of the lookups: calls, storage
\* failures, storage writes, advances of the clock.
MaxQueryEvents == 4
\* Requests in one chain of followed redirects.
MaxHops == 4
\* Seconds of the clock in the behaviours that time the flush timer.
MaxTime == 7
\* records pushed in a run of SpecTimed
MaxTimedRecords == 4
\* logRequestAudit calls in a run of SpecExpiry
MaxExpiryCalls == 3
\* records pushed in a run of SpecLive
MaxLiveRecords == 3
\* free slots of the cache in a run of SpecCacheFull
MaxFreeSlots == 2
\* ticks of the log-cleanup interval in one behaviour
MaxSweeps == 2

(***************************************************************************)
(* Program constants.  BATCH_SIZE and MAX_BUFFER_SIZE are 100 and 500 in   *)
(* the source; they are scaled down (keeping BATCH_SIZE < MAX_BUFFER_SIZE) *)
(* so that the buffer can be driven to and past both thresholds.           *)
(***************************************************************************)
BATCH_SIZE == 2
MAX_BUFFER_SIZE == 3
maxRetries == 3
RETENTION_TTL == 3600
SESSION_CACHE_TTL == 60
\* BATCH_INTERVAL_MS = 5000, in the seconds of the clock
BATCH_INTERVAL == 5
\* maxKeys of the NodeCache
maxKeys == 5000

Orgs == {"orgA", "orgB"}
NoOrg == "none"                       \* data.orgId undefined
\* an orgId whose row is gone from orgs: the select returns no row
DeletedOrg == "orgGone"
OrgIds == Orgs \cup {DeletedOrg}

\* orgs.settingsLogRetentionDaysRequest as held by storage
settingsLogRetentionDaysRequest(o) ==
    CASE o = "orgA" -> 0
      [] o = "orgC" -> 9001
      [] o = "orgD" -> 0
      [] OTHER -> 30

VARIABLES
    now,                     \* Date.now(), in seconds
    cache,                   \* NodeCache: key -> [value, expiresAt]
    otherKeys,               \* NodeCache: keys held for the other callers
    auditLogBuffer,          \* Seq of records [id, orgId, timestamp]
    flushTimer,              \* flushTimer !== null
    flushTimerDue,           \* when the pending flushTimer expires
    failedFlushCount,
    inflightRetentionChecks, \* Set<string>
    retentionQueries,        \* org -> number of running getRetentionDays queries
    inflightFlushes,         \* flushAuditLogs executions awaiting db.insert
    retryTimers,             \* retryCount -> pending setTimeout retries
    monitoringInterval,      \* monitoringInterval !== null
    shutdownState,           \* "running" | "draining" | "stopped"
    nextId,                  \* history: id of the next record pushed
    attempts,                \* history: id -> bulk-write attempts that held it
    bulkWrites,              \* history: db.insert calls started
    inserted,                \* history: id -> successful bulk inserts that held it
    lost,                    \* history: ids dropped after a failed insert
    events,                  \* history: environment events so far
    lastCall,                \* history: what the last logRequestAudit call did
    lastRetention,           \* history: how the last getRetentionDays query ended
    unhandled,               \* history: rejections no handler caught
    disableSessionQueries,   \* isFeatureDisabled("DISABLE_SESSION_QUERIES")
    db,                      \* storage: lookup -> the row it selects, or NULL
    dbChangedAt,             \* history: lookup -> time of the last change of its row
    lastRead,                \* history: lookup -> what its latest select found
    lookups,                 \* bag of verifySessionQueries calls awaiting storage
    lastReturn,              \* history: how the last lookup call ended
    request,                 \* the request badger asks verifySession about
    response,                \* the answer to it: valid false, redirectUrl or none
    phase,                   \* "idle" | "requested" | "answered"
    hops,                    \* history: requests of the current chain
    redirects,               \* history: redirects issued in the current chain
    target,                  \* history: originalRequestURL of the chain's first request
    tz,                      \* the process's offset from UTC, in hours (TZ)
    cutoffTimestamp,         \* what the last calculateCutoffTimestamp call returned
    requestAuditLog,         \* storage: rows [orgId, timestamp] of requestAuditLog
    sweep,                   \* the running callback of the cleanup interval
    sweepTicks,              \* history: ticks of the cleanup interval so far
    processUp,               \* the server process is running
    disableAuditLogging,     \* isFeatureDisabled("DISABLE_AUDIT_LOGGING")
    filterCalls,             \* bag of queryUniqueFilterAttributes calls awaiting storage
    lastFilter,              \* history: how the last of these calls ended
    filterFilledAt,          \* history: cache key -> time of its last fill
    userCalls,               \* bag of getUser calls awaiting queryUser
    lastUser,                \* history: the last response of getUser
    userQueriedAt,           \* history: userId -> time its last query was issued
    resourceCalls,           \* bag of getResourceAuthInfo calls awaiting storage
    lastResource             \* history: the last response of getResourceAuthInfo

cacheVars == <<cache, otherKeys>>
bufferVars == <<auditLogBuffer, inflightFlushes, attempts, bulkWrites>>
flushTimerVars == <<flushTimer, flushTimerDue>>
timerVars == <<flushTimerVars, retryTimers, monitoringInterval>>
retentionVars == <<inflightRetentionChecks, retentionQueries>>
settleVars == <<lastRetention, unhandled>>
outcomeVars == <<inserted, lost>>
auditVars == <<bufferVars, timerVars, retentionVars, settleVars, outcomeVars,
               failedFlushCount, shutdownState, nextId, lastCall>>
storageVars == <<db, dbChangedAt, lastRead>>
queryVars == <<disableSessionQueries, storageVars, lookups, lastReturn>>
redirectVars == <<request, response, phase, hops, redirects, target>>
cleanupVars == <<tz, cutoffTimestamp, requestAuditLog, sweep, sweepTicks,
                 processUp>>
filterVars == <<filterCalls, lastFilter, filterFilledAt>>
userVars == <<userCalls, lastUser, userQueriedAt>>
resourceVars == <<resourceCalls, lastResource>>
endpointVars == <<filterVars, userVars, resourceVars>>
serviceVars == <<cleanupVars, disableAuditLogging, endpointVars>>
vars == <<now, cacheVars, events, auditVars, queryVars, redirectVars,
         serviceVars>>

RecordIds == 1..MaxEvents

(***************************************************************************)
(* server/lib/cache.ts: NodeCache.  An entry is served until its TTL has   *)
(* elapsed.                                                                *)
(***************************************************************************)
\* mutant: an entry never expires
CacheHas_NoExpiry(c, t, key) == key \in DOMAIN c

CacheHas(c, t, key) == key \in DOMAIN c /\ t < c[key].expiresAt

CacheGet(c, t, key) == c[key].value

CacheSet(c, t, key, value, ttl) ==
    [k \in DOMAIN c \cup {key} |->
        IF k = key THEN [value |-> value, expiresAt |-> t + ttl] ELSE c[k]]

\* NodeCache.set on a cache that holds maxKeys keys throws (ECACHEFULL) and
\* stores nothing: node-cache has no eviction
CacheFull(c, n) == Cardinality(DOMAIN c) + n >= maxKeys

RetentionKey(o) == <<"org_retentionDays", o>>

\* the entry of a key is in the cache and its TTL has not elapsed
Live(key) == key \in DOMAIN cache /\ now < cache[key].expiresAt

\* another caller of the shared cache stores a new key (on a full cache its
\* set throws and stores nothing: no step)
OtherCallerSets ==
    /\ ~CacheFull(cache, otherKeys)
    /\ otherKeys' = otherKeys + 1
    /\ UNCHANGED <<now, cache, events, auditVars, queryVars, redirectVars, serviceVars>>

\* a key of another caller expires and is deleted
OtherKeyExpires ==
    /\ otherKeys > 0
    /\ Cardinality(DOMAIN cache) + otherKeys > maxKeys - MaxFreeSlots
    /\ otherKeys' = otherKeys - 1
    /\ UNCHANGED <<now, cache, events, auditVars, queryVars, redirectVars, serviceVars>>

(***************************************************************************)
(* flushAuditLogs, synchronous part (lines 70-81): splice the whole buffer *)
(* into logsToWrite and start the bulk insert.                             *)
(***************************************************************************)
Ids(logs) == {logs[i].id : i \in 1..Len(logs)}

\* the records held by flushes that await db.insert
InFlightIds == UNION {Ids(f.logsToWrite) : f \in inflightFlushes}

\* mutant: slice() instead of splice(): the buffer keeps what was taken
SpliceRest_Copy(buf) == buf

\* auditLogBuffer after auditLogBuffer.splice(0, auditLogBuffer.length)
SpliceRest(buf) == <<>>

flushAuditLogs(buf, retryCount, awaited) ==
    IF Len(buf) = 0
    THEN /\ auditLogBuffer' = buf
         /\ inflightFlushes' = inflightFlushes
         /\ attempts' = attempts
         /\ bulkWrites' = bulkWrites
    ELSE /\ auditLogBuffer' = SpliceRest(buf)
         /\ inflightFlushes' = inflightFlushes \cup
                {[logsToWrite |-> buf, retryCount |-> retryCount,
                  awaited |-> awaited]}
         /\ attempts' = [i \in RecordIds |->
                IF i \in Ids(buf) THEN attempts[i] + 1 ELSE attempts[i]]
         /\ bulkWrites' = bulkWrites + 1

\* mutant: no timer is armed
scheduleFlush_Never == UNCHANGED flushTimerVars

\* mutant: the timer is armed for twice the interval
scheduleFlush_Late ==
    IF flushTimer
    THEN UNCHANGED flushTimerVars
    ELSE /\ flushTimer' = TRUE
         /\ flushTimerDue' = now + 2 * BATCH_INTERVAL

\* scheduleFlush (lines 120-129)
scheduleFlush ==
    IF flushTimer
    THEN UNCHANGED flushTimerVars
    ELSE /\ flushTimer' = TRUE
         /\ flushTimerDue' = now + BATCH_INTERVAL

(***************************************************************************)
(* logRequestAudit (lines 203-317)                                         *)
(***************************************************************************)
\* mutant: the buffer is flushed when it exceeds BATCH_SIZE
BufferFull_Exceeds(buf) == Len(buf) > BATCH_SIZE

\* line 305: auditLogBuffer.length >= BATCH_SIZE
BufferFull(buf) == Len(buf) >= BATCH_SIZE

\* mutant: a retention that is not cached counts as disabled
RetentionDisabled_OrUnknown(o) ==
    /\ o # NoOrg
    /\ \/ ~CacheHas(cache, now, RetentionKey(o))
       \/ CacheGet(cache, now, RetentionKey(o)) = 0

\* mutant: the cached 0 is not acted on
RetentionDisabled_Ignored(o) == FALSE

\* lines 231-237: the cached value says retention is disabled
RetentionDisabled(o) ==
    /\ o # NoOrg
    /\ CacheHas(cache, now, RetentionKey(o))
    /\ CacheGet(cache, now, RetentionKey(o)) = 0

\* mutant: no inflightRetentionChecks.has() test
StartsRetentionCheck_NoDedup(o) ==
    /\ o # NoOrg
    /\ ~CacheHas(cache, now, RetentionKey(o))

\* mutant: no test of the cached value
StartsRetentionCheck_NoCacheTest(o) ==
    /\ o # NoOrg
    /\ o \notin inflightRetentionChecks

\* lines 238-241: cache miss and no background check in flight yet
StartsRetentionCheck(o) ==
    /\ o # NoOrg
    /\ ~CacheHas(cache, now, RetentionKey(o))
    /\ o \notin inflightRetentionChecks

\* what cache.get returned to the call (-1 for undefined)
CachedDays(o) ==
    IF o # NoOrg /\ CacheHas(cache, now, RetentionKey(o))
    THEN CacheGet(cache, now, RetentionKey(o)) ELSE -1

LogRequestAudit(o) ==
    IF RetentionDisabled(o)
    THEN /\ lastCall' = [kind |-> "call", orgId |-> o, cached |-> 0,
                         checking |-> FALSE, buffered |-> FALSE]
         /\ UNCHANGED <<now, cacheVars, events, bufferVars, timerVars,
                        retentionVars, outcomeVars, failedFlushCount,
                        shutdownState, nextId, settleVars,
                   queryVars, redirectVars, serviceVars>>
    ELSE /\ events < MaxEvents
         /\ events' = events + 1
         /\ IF StartsRetentionCheck(o)
            THEN /\ inflightRetentionChecks' = inflightRetentionChecks \cup {o}
                 /\ retentionQueries' =
                        [retentionQueries EXCEPT ![o] = @ + 1]
            ELSE UNCHANGED retentionVars
         /\ LET pushed == Append(auditLogBuffer,
                        [id |-> nextId, orgId |-> o, timestamp |-> now])
            IN  IF BufferFull(pushed)
                THEN /\ flushAuditLogs(pushed, 0, FALSE)
                     /\ UNCHANGED flushTimerVars
                ELSE /\ auditLogBuffer' = pushed
                     /\ scheduleFlush
                     /\ UNCHANGED <<inflightFlushes, attempts, bulkWrites>>
         /\ nextId' = nextId + 1
         /\ lastCall' = [kind |-> "call", orgId |-> o,
                         cached |-> CachedDays(o),
                         checking |-> (o \in inflightRetentionChecks),
                         buffered |-> TRUE]
         /\ UNCHANGED <<now, cacheVars, retryTimers, monitoringInterval,
                        outcomeVars, failedFlushCount, shutdownState,
                        settleVars, queryVars, redirectVars, serviceVars>>

(***************************************************************************)
(* getRetentionDays (lines 146-180) settling, with the .catch/.finally of  *)
(* logRequestAudit (lines 244-249).  The continuation after the await and  *)
(* the two handlers run as consecutive microtasks: one step.               *)
(***************************************************************************)
\* mutant: the org stays in the set
RetentionCheckDone_Leak(set, o) == set

\* line 248: inflightRetentionChecks.delete(data.orgId)
RetentionCheckDone(set, o) == set \ {o}

\* mutant: the handler rethrows what it caught
CatchRetention_Rethrow(err) == {err}

\* lines 244-246: .catch logs the error; the rejection ends there
CatchRetention(err) == {}

\* the select resolves (lines 159-180)
RetentionQueryReturns(o) ==
    /\ retentionQueries[o] > 0
    /\ events < MaxEvents
    /\ events' = events + 1
    /\ retentionQueries' = [retentionQueries EXCEPT ![o] = @ - 1]
    /\ IF o \notin Orgs
       THEN \* lines 168-170: no row, 0 is returned and nothing is cached
            /\ cache' = cache
            /\ lastRetention' = [orgId |-> o, outcome |-> "returned"]
            /\ unhandled' = unhandled
       ELSE IF CacheFull(cache, otherKeys)
       THEN \* cache.set throws inside getRetentionDays: a rejection
            /\ cache' = cache
            /\ lastRetention' = [orgId |-> o, outcome |-> "threw"]
            /\ unhandled' = unhandled \cup CatchRetention("cache.set")
       ELSE /\ cache' = CacheSet(cache, now, RetentionKey(o),
                                 settingsLogRetentionDaysRequest(o),
                                 RETENTION_TTL)
            /\ lastRetention' = [orgId |-> o, outcome |-> "returned"]
            /\ unhandled' = unhandled
    /\ inflightRetentionChecks' = RetentionCheckDone(inflightRetentionChecks, o)
    /\ UNCHANGED <<now, otherKeys, bufferVars, timerVars, outcomeVars,
                   failedFlushCount, shutdownState, nextId, lastCall,
                   queryVars, redirectVars, serviceVars>>

\* the select rejects (lines 159-166)
RetentionQueryThrows(o) ==
    /\ retentionQueries[o] > 0
    /\ events < MaxEvents
    /\ events' = events + 1
    /\ retentionQueries' = [retentionQueries EXCEPT ![o] = @ - 1]
    /\ lastRetention' = [orgId |-> o, outcome |-> "threw"]
    /\ unhandled' = unhandled \cup CatchRetention("select")
    /\ inflightRetentionChecks' = RetentionCheckDone(inflightRetentionChecks, o)
    /\ UNCHANGED <<now, cacheVars, bufferVars, timerVars, outcomeVars,
                   failedFlushCount, shutdownState, nextId, lastCall,
                   queryVars, redirectVars, serviceVars>>

(***************************************************************************)
(* Timers                                                                  *)
(***************************************************************************)
\* the setTimeout callback of scheduleFlush (lines 122-127)
FlushTimerFires ==
    /\ flushTimer
    /\ flushTimer' = FALSE
    /\ flushTimerDue' = 0
    /\ flushAuditLogs(auditLogBuffer, 0, FALSE)
    /\ UNCHANGED <<now, cacheVars, events, retryTimers, monitoringInterval,
                   retentionVars, outcomeVars, failedFlushCount,
                   shutdownState, nextId, lastCall, settleVars,
                   queryVars, redirectVars, serviceVars>>

\* the setTimeout callback of the retry (lines 102-106)
RetryTimerFires(rc) ==
    /\ retryTimers[rc] > 0
    /\ retryTimers' = [retryTimers EXCEPT ![rc] = @ - 1]
    /\ flushAuditLogs(auditLogBuffer, rc, FALSE)
    /\ UNCHANGED <<now, cacheVars, events, flushTimerVars, monitoringInterval,
                   retentionVars, outcomeVars, failedFlushCount,
                   shutdownState, nextId, lastCall, settleVars,
                   queryVars, redirectVars, serviceVars>>

\* the setInterval callback (lines 320-350)
MonitoringTick ==
    /\ monitoringInterval
    /\ IF Len(auditLogBuffer) > MAX_BUFFER_SIZE
       THEN flushAuditLogs(auditLogBuffer, 0, FALSE)
       ELSE UNCHANGED bufferVars
    /\ UNCHANGED <<now, cacheVars, events, timerVars, retentionVars, outcomeVars,
                   failedFlushCount, shutdownState, nextId, lastCall, settleVars,
                   queryVars, redirectVars, serviceVars>>

(***************************************************************************)
(* flushAuditLogs after the await (lines 82-114)                           *)
(***************************************************************************)
\* shutdownAuditLogger resumes when the flush it awaits (line 143) settles
ShutdownAfter(f) ==
    IF f.awaited THEN "stopped" ELSE shutdownState

\* lines 82-88
InsertSucceeds(f) ==
    /\ f \in inflightFlushes
    /\ inflightFlushes' = inflightFlushes \ {f}
    /\ inserted' = [i \in RecordIds |->
            IF i \in Ids(f.logsToWrite) THEN inserted[i] + 1 ELSE inserted[i]]
    /\ failedFlushCount' = 0
    /\ shutdownState' = ShutdownAfter(f)
    /\ UNCHANGED <<now, cacheVars, events, auditLogBuffer, attempts, bulkWrites, timerVars,
                   retentionVars, lost, nextId, lastCall, settleVars,
                   queryVars, redirectVars, serviceVars>>

\* line 94
RetriesLeft(retryCount) == retryCount < maxRetries

\* mutant: the batch is not put back
Unshift_Discard(buf, logs) == buf

\* mutant: push(...logsToWrite): the batch goes behind what has arrived
Unshift_Push(buf, logs) == buf \o logs

\* line 99: auditLogBuffer.unshift(...logsToWrite)
Unshift(buf, logs) == logs \o buf

\* mutant: only the first failure of a batch schedules a retry
ArmRetry_FirstOnly(timers, retryCount) ==
    IF retryCount = 0 THEN [timers EXCEPT ![1] = @ + 1] ELSE timers

\* mutant: the batch is put back but no retry is scheduled
ArmRetry_Never(timers, retryCount) == timers

\* lines 102-106: setTimeout(() => flushAuditLogs(retryCount + 1, ...))
ArmRetry(timers, retryCount) ==
    [timers EXCEPT ![retryCount + 1] = @ + 1]

\* lines 89-110
InsertFails(f) ==
    /\ f \in inflightFlushes
    /\ events < MaxEvents
    /\ events' = events + 1
    /\ inflightFlushes' = inflightFlushes \ {f}
    /\ failedFlushCount' = failedFlushCount + 1
    /\ IF RetriesLeft(f.retryCount)
       THEN /\ auditLogBuffer' = Unshift(auditLogBuffer, f.logsToWrite)
            /\ retryTimers' = ArmRetry(retryTimers, f.retryCount)
            /\ lost' = lost
       ELSE /\ lost' = lost \cup Ids(f.logsToWrite)
            /\ UNCHANGED <<auditLogBuffer, retryTimers>>
    /\ shutdownState' = ShutdownAfter(f)
    /\ UNCHANGED <<now, cacheVars, attempts, bulkWrites, flushTimerVars, monitoringInterval,
                   retentionVars, inserted, nextId, lastCall, settleVars,
                   queryVars, redirectVars, serviceVars>>

(***************************************************************************)
(* shutdownAuditLogger (lines 134-144)                                     *)
(***************************************************************************)
ShutdownAuditLogger ==
    /\ shutdownState = "running"
    /\ monitoringInterval' = FALSE
    /\ flushTimer' = FALSE
    /\ flushTimerDue' = 0
    /\ flushAuditLogs(auditLogBuffer, 0, TRUE)
    /\ shutdownState' =
            IF Len(auditLogBuffer) = 0 THEN "stopped" ELSE "draining"
    /\ UNCHANGED <<now, cacheVars, events, retryTimers, retentionVars,
                   outcomeVars, failedFlushCount, nextId, lastCall, settleVars,
                   queryVars, redirectVars, serviceVars>>

(***************************************************************************)
(* The clock                                                               *)
(***************************************************************************)
\* the flush timer expires BATCH_INTERVAL_MS after scheduleFlush armed it
FlushTimerExpires == now >= flushTimerDue /\ FlushTimerFires

\* a second passes; a pending flush timer fires no later than it is due
TimePasses ==
    /\ now < MaxTime
    /\ flushTimer => now < flushTimerDue
    /\ now' = now + 1
    /\ UNCHANGED <<cacheVars, events, auditVars, queryVars, redirectVars, serviceVars>>

\* the instants at which the entries of a cache filled at the start are
\* about to expire, expire, and have expired
Instants ==
    {SESSION_CACHE_TTL - 1, SESSION_CACHE_TTL, SESSION_CACHE_TTL + 1,
     RETENTION_TTL - 1, RETENTION_TTL}

\* the clock moves on to a later instant
ClockAdvances ==
    /\ \E t \in Instants : t > now /\ now' = t
    /\ UNCHANGED <<cacheVars, events, auditVars, queryVars, redirectVars, serviceVars>>

AdvanceTime(d, limit) ==
    /\ events < limit
    /\ events' = events + 1
    /\ now' = now + d
    /\ UNCHANGED <<cacheVars, auditVars, queryVars, redirectVars, serviceVars>>

(***************************************************************************)
(* server/db/queries/verifySessionQueries.ts                               *)
(***************************************************************************)
NULL == "null"
Row == "row"
NoValue == "none"

\* lookups that go through the cache (lines 102-270)
CachedLookups == {"getUserSessionWithUser", "getUserOrgRole",
                  "getRoleResourceAccess", "getUserResourceAccess"}
\* getResourceByDomain (lines 43-97) queries storage on every call
Lookups == {"getResourceByDomain"} \cup CachedLookups

\* getResourceRules (lines 275-294) and getOrgLoginPage (lines 299-327)
\* query storage on every call, too
AllLookups == Lookups \cup {"getResourceRules", "getOrgLoginPage"}

\* ResourceRule[]: the rules of the resource, and the list without rules
RuleList == "rules"
EmptyList == "[]"

\* what the select of a lookup finds in storage
StoredResult(fn) == IF fn = "getResourceRules" THEN RuleList ELSE Row

\* mutant: getOrgLoginPage does not test the flag
SessionQueriesDisabled_NotLoginPage(fn) ==
    disableSessionQueries /\ fn # "getOrgLoginPage"

\* lines 47, 105, 146, 187, 233, 278, 302: the first statement of every
\* lookup
SessionQueriesDisabled(fn) == disableSessionQueries

\* lines 49, 106, 147, 188, 234, 279, 303: what a lookup returns under the
\* flag
DisabledResult(fn) == IF fn = "getResourceRules" THEN EmptyList ELSE NULL

\* lines 110, 151, 192, 238: the cache key of a lookup for one argument
CacheKey(fn) ==
    CASE fn = "getUserSessionWithUser" -> <<"session", "s1">>
      [] fn = "getUserOrgRole" -> <<"userOrgRole", "u1:o1">>
      [] fn = "getRoleResourceAccess" -> <<"roleResourceAccess", "1:1">>
      [] fn = "getUserResourceAccess" -> <<"userResourceAccess", "u1:1">>
      [] OTHER -> <<"uncached", fn>>

\* lines 113, 154, 195, 241: cached !== undefined
CacheHit(fn) == fn \in CachedLookups /\ CacheHas(cache, now, CacheKey(fn))

\* mutant: only a found result is cached
CacheAfterReturn_FoundOnly(c, t, fn, result) ==
    IF fn \in CachedLookups /\ result # NULL
    THEN CacheSet(c, t, CacheKey(fn), result, SESSION_CACHE_TTL)
    ELSE c

\* lines 136, 174, 220, 266: cache.set(cacheKey, result, 60)
CacheAfterReturn(c, t, fn, result) ==
    IF fn \in CachedLookups
    THEN CacheSet(c, t, CacheKey(fn), result, SESSION_CACHE_TTL)
    ELSE c

\* mutant: the rejection is swallowed and a not-found result is cached
CacheAfterThrow_CachesNull(c, t, fn) ==
    CacheSet(c, t, CacheKey(fn), NULL, SESSION_CACHE_TTL)

\* the awaited query rejects (lines 55, 121, 162, 203, 249): the function
\* throws before it reaches cache.set
CacheAfterThrow(c, t, fn) == c

\* the outcome of authorize() for a lookup that ended this way: fail-closed
Allowed(outcome, value) == outcome = "ok" /\ value = Row

Returned(fn, outcome, value, hit, c) ==
    [fn |-> fn, outcome |-> outcome, value |-> value, hit |-> hit,
     wroteCache |-> c # cache, allowed |-> Allowed(outcome, value)]

\* calls of lookup fn that await storage
Pending(bag, fn) ==
    LET S == {l \in BagToSet(bag) : l.fn = fn}
        RECURSIVE Sum(_)
        Sum(T) == IF T = {} THEN 0
                  ELSE LET l == CHOOSE x \in T : TRUE
                       IN  CopiesIn(l, bag) + Sum(T \ {l})
    IN  Sum(S)

\* a call up to its first await
LookupStart(fn) ==
    /\ events < MaxQueryEvents
    /\ events' = events + 1
    /\ IF SessionQueriesDisabled(fn)
       THEN /\ lastReturn' = Returned(fn, "ok", DisabledResult(fn), FALSE,
                                      cache)
            /\ UNCHANGED lookups
       ELSE IF CacheHit(fn)
       THEN /\ lastReturn' = Returned(fn, "ok",
                                      CacheGet(cache, now, CacheKey(fn)),
                                      TRUE, cache)
            /\ UNCHANGED lookups
       ELSE /\ lookups' = lookups (+)
                    SetToBag({[fn |-> fn, pc |-> "querying", row |-> NoValue]})
            /\ UNCHANGED lastReturn
    /\ UNCHANGED <<now, cacheVars, auditVars, redirectVars, serviceVars,
                   disableSessionQueries, storageVars>>

\* storage executes the select
DbExecutes(l) ==
    /\ BagIn(l, lookups)
    /\ l.pc = "querying"
    /\ lookups' = (lookups (-) SetToBag({l})) (+)
            SetToBag({[l EXCEPT !.pc = "answered", !.row = db[l.fn]]})
    /\ lastRead' = [lastRead EXCEPT ![l.fn] = db[l.fn]]
    /\ UNCHANGED <<now, cacheVars, events, auditVars, redirectVars, serviceVars,
                   disableSessionQueries, db, dbChangedAt,
                   lastReturn>>

\* the call after its await: build the result, cache it, return it
LookupReturns(l) ==
    /\ BagIn(l, lookups)
    /\ l.pc = "answered"
    /\ lookups' = lookups (-) SetToBag({l})
    /\ IF l.fn \in CachedLookups /\ CacheFull(cache, otherKeys)
       THEN \* cache.set throws and the lookup rejects with it
            /\ cache' = cache
            /\ lastReturn' = Returned(l.fn, "error", NoValue, FALSE, cache')
       ELSE /\ cache' = CacheAfterReturn(cache, now, l.fn, l.row)
            /\ lastReturn' = Returned(l.fn, "ok", l.row, FALSE, cache')
    /\ UNCHANGED <<now, otherKeys, events, auditVars, redirectVars, serviceVars,
                   disableSessionQueries, storageVars>>

\* the awaited query rejects
LookupThrows(l) ==
    /\ BagIn(l, lookups)
    /\ l.pc = "querying"
    /\ events < MaxQueryEvents
    /\ events' = events + 1
    /\ lookups' = lookups (-) SetToBag({l})
    /\ cache' = CacheAfterThrow(cache, now, l.fn)
    /\ lastReturn' = Returned(l.fn, "error", NoValue, FALSE, cache')
    /\ UNCHANGED <<now, otherKeys, auditVars, redirectVars, serviceVars,
                   disableSessionQueries, storageVars>>

\* another part of the server inserts or deletes the row a lookup selects
StorageWrite(fn) ==
    /\ events < MaxQueryEvents
    /\ events' = events + 1
    /\ db' = [db EXCEPT ![fn] = IF @ = Row THEN NULL ELSE Row]
    /\ dbChangedAt' = [dbChangedAt EXCEPT ![fn] = now]
    /\ lastRead' = lastRead
    /\ UNCHANGED <<now, cacheVars, auditVars, redirectVars, serviceVars,
                   disableSessionQueries, lookups,
                   lastReturn>>

(***************************************************************************)
(* The redirect policy of server/routers/badger/verifySession.ts, from the *)
(* code quoted in the investigation notes.  A string is the sequence of    *)
(* its characters.                                                         *)
(***************************************************************************)
CHALLENGE_PATH_PREFIX ==
    <<"/", "a", "u", "t", "h", "/", "r", "e", "s", "o", "u", "r", "c", "e", "/">>
REDIRECT_PARAM == <<"?", "r", "e", "d", "i", "r", "e", "c", "t", "=">>
\* scheme and host of the protected resource, shortened
Origin == <<"h", ":", "/", "/", "x">>

StartsWith(s, p) == Len(s) >= Len(p) /\ SubSeq(s, 1, Len(p)) = p

\* encodeURIComponent on the characters the model uses
EncodeChar(c) ==
    CASE c = "/" -> <<"%", "2", "F">>
      [] c = "?" -> <<"%", "3", "F">>
      [] c = "=" -> <<"%", "3", "D">>
      [] c = ":" -> <<"%", "3", "A">>
      [] c = "%" -> <<"%", "2", "5">>
      [] OTHER -> <<c>>

RECURSIVE encodeURIComponent(_)
encodeURIComponent(s) ==
    IF s = <<>> THEN <<>>
    ELSE EncodeChar(Head(s)) \o encodeURIComponent(Tail(s))

\* decodeURIComponent, as the auth page applies it to the redirect parameter
DecodeHex(a, b) ==
    CASE a = "2" /\ b = "F" -> "/"
      [] a = "3" /\ b = "F" -> "?"
      [] a = "3" /\ b = "D" -> "="
      [] a = "3" /\ b = "A" -> ":"
      [] a = "2" /\ b = "5" -> "%"
      [] OTHER -> "!"

RECURSIVE decodeURIComponent(_)
decodeURIComponent(s) ==
    IF s = <<>> THEN <<>>
    ELSE IF Head(s) = "%" /\ Len(s) >= 3
         THEN <<DecodeHex(s[2], s[3])>> \o
                 decodeURIComponent(SubSeq(s, 4, Len(s)))
         ELSE <<Head(s)>> \o decodeURIComponent(Tail(s))

\* the URL traefik reports for a request
OriginalRequestURL(req) ==
    Origin \o req.path \o
        (IF req.query = <<>> THEN <<>> ELSE <<"?">> \o req.query)

\* mutant: only the bare prefix counts as the auth page
isAlreadyAuthPage_Exact(path) == path = CHALLENGE_PATH_PREFIX

\* mutant: the code before the fix, no loop detection
isAlreadyAuthPage_Never(path) == FALSE

\* path.startsWith('/auth/resource/')
isAlreadyAuthPage(path) == StartsWith(path, CHALLENGE_PATH_PREFIX)

\* `/auth/resource/${encodeURIComponent(resourceGuid)}?redirect=${...}`
redirectPath(req) ==
    CHALLENGE_PATH_PREFIX \o encodeURIComponent(req.guid) \o REDIRECT_PARAM
        \o encodeURIComponent(OriginalRequestURL(req))

\* the denial sent back: {valid: false, redirectUrl?}
Denial(req) ==
    IF isAlreadyAuthPage(req.path)
    THEN [redirect |-> FALSE, url |-> <<>>]
    ELSE [redirect |-> TRUE, url |-> Origin \o redirectPath(req)]

\* the request a client makes when it follows redirectUrl
IndexOf(s, c) ==
    IF \E i \in 1..Len(s) : s[i] = c
    THEN CHOOSE i \in 1..Len(s) : s[i] = c /\ \A j \in 1..(i - 1) : s[j] # c
    ELSE 0

RequestFor(url, guid) ==
    LET rel == SubSeq(url, Len(Origin) + 1, Len(url))
        q == IndexOf(rel, "?")
    IN  IF q = 0
        THEN [path |-> rel, query |-> <<>>, guid |-> guid]
        ELSE [path |-> SubSeq(rel, 1, q - 1),
              query |-> SubSeq(rel, q + 1, Len(rel)), guid |-> guid]

Paths == {<<"/", "t">>,
          <<"/", "a", "u", "t", "h">>,
          <<"/", "a", "u", "t", "h", "/", "r", "e", "s", "o", "u", "r", "c", "e">>,
          CHALLENGE_PATH_PREFIX,
          CHALLENGE_PATH_PREFIX \o <<"g">>,
          <<"/", "t">> \o CHALLENGE_PATH_PREFIX \o <<"g">>}
Queries == {<<>>,
            <<"a", "=", "1">>,
            <<"p", "=", "%", "2", "5">>,
            <<"r", "e", "d", "i", "r", "e", "c", "t", "=", "h", "%", "3", "A", "t">>}
Guids == {<<"g">>, <<"k", "9">>}
NoRequest == [path |-> <<>>, query |-> <<>>, guid |-> <<>>]
NoResponse == [redirect |-> FALSE, url |-> <<>>]

\* an unauthenticated client asks for a page of a protected resource
ClientRequest(path, query, guid) ==
    /\ phase = "idle"
    /\ request' = [path |-> path, query |-> query, guid |-> guid]
    /\ response' = NoResponse
    /\ phase' = "requested"
    /\ hops' = 1
    /\ redirects' = 0
    /\ target' = OriginalRequestURL(request')
    /\ UNCHANGED <<now, cacheVars, events, auditVars, queryVars, serviceVars>>

\* verifySession denies the request and computes the redirect
VerifyDenies ==
    /\ phase = "requested"
    /\ response' = Denial(request)
    /\ redirects' = IF response'.redirect THEN redirects + 1 ELSE redirects
    /\ phase' = "answered"
    /\ UNCHANGED <<now, cacheVars, events, auditVars, queryVars, serviceVars, request, hops,
                   target>>

\* the client follows redirectUrl; the auth page is behind the gateway too
ClientFollows ==
    /\ phase = "answered"
    /\ response.redirect
    /\ hops < MaxHops
    /\ request' = RequestFor(response.url, request.guid)
    /\ hops' = hops + 1
    /\ phase' = "requested"
    /\ UNCHANGED <<now, cacheVars, events, auditVars, queryVars, serviceVars, response,
                   redirects, target>>

\* the client gives up on a plain denial
ChainEnds ==
    /\ phase = "answered"
    /\ ~response.redirect
    /\ phase' = "idle"
    /\ request' = NoRequest
    /\ response' = NoResponse
    /\ hops' = 0
    /\ redirects' = 0
    /\ target' = <<>>
    /\ UNCHANGED <<now, cacheVars, events, auditVars, queryVars, serviceVars>>

(***************************************************************************)
(* server/lib/cleanupLogs.ts: calculateCutoffTimestamp (lines 89-102).     *)
(* Times are seconds since 1970-01-01T00:00:00Z.                           *)
(***************************************************************************)
\* the retention value that stands for "until the end of the following year"
RETENTION_SENTINEL == 9001

\* the leap days of the years before y
LeapDaysBefore(y) ==
    ((y - 1) \div 4) - ((y - 1) \div 100) + ((y - 1) \div 400)

\* Date.UTC(y, 0, 1, 0, 0, 0) / 1000
DateUTC(y) ==
    (365 * (y - 1970) + LeapDaysBefore(y) - LeapDaysBefore(1970))
        * (24 * 60 * 60)

Years == 2023..2028

\* the calendar year of the instant t of a clock that shows UTC
FullYear(t) == CHOOSE y \in Years : DateUTC(y) <= t /\ t < DateUTC(y + 1)

\* the offsets from UTC of the places the server runs in, in hours
TZOffsets == {-5, 0, 1}

\* new Date().getUTCFullYear()
getUTCFullYear == FullYear(now)

\* line 94: new Date().getFullYear(), the year of the local time
getFullYear == FullYear(now + tz * 60 * 60)

calculateCutoffTimestamp(retentionDays) ==
    IF retentionDays = RETENTION_SENTINEL
    THEN DateUTC(getFullYear - 1)
    ELSE now - retentionDays * 24 * 60 * 60

(***************************************************************************)
(* server/lib/cleanupLogs.ts: initLogCleanupInterval (lines 8-87), and     *)
(* cleanUpOldLogs of logRequestAudit.ts (lines 182-201).  The callback of  *)
(* the interval is an async function whose promise setInterval drops.      *)
(***************************************************************************)
\* 3 * 60 * 60 * 1000 ms, in the seconds of the clock
SWEEP_PERIOD == 10800

\* the rows of orgs, in the order the select returns them
OrgRows == <<"orgA", "orgB", "orgC", "orgD">>

\* lines 20-25: the three retention settings of an org
settingsLogRetentionDays(o, category) ==
    CASE category = "action" ->
            IF o = "orgB" THEN 7 ELSE IF o = "orgD" THEN -1 ELSE 0
      [] category = "access" -> IF o = "orgA" THEN 30 ELSE 0
      [] category = "request" -> settingsLogRetentionDaysRequest(o)

\* lines 48-79: the cleanups of one org, in the order the loop awaits them
LogCategories == <<"action", "access", "request">>

\* mutant: every category is cleaned with the retention of the request logs
OrgTasks_RequestSetting(o) ==
    LET all == [i \in 1..Len(LogCategories) |->
                    [orgId |-> o, category |-> LogCategories[i],
                     retentionDays |-> settingsLogRetentionDaysRequest(o)]]
        due(t) == settingsLogRetentionDays(o, t.category) > 0
    IN  SelectSeq(all, due)

OrgTasks(o) ==
    LET all == [i \in 1..Len(LogCategories) |->
                    [orgId |-> o, category |-> LogCategories[i],
                     retentionDays |->
                        settingsLogRetentionDays(o, LogCategories[i])]]
        due(t) == t.retentionDays > 0
    IN  SelectSeq(all, due)

\* lines 28-34: where or(gt(action, 0), gt(access, 0), gt(request, 0))
OrgsToClean(rows) ==
    LET selected(o) ==
            \E i \in 1..Len(LogCategories) :
                settingsLogRetentionDays(o, LogCategories[i]) > 0
    IN  SelectSeq(rows, selected)

\* line 38: the loop over orgsToClean, each org with its cleanups
RECURSIVE SweepTasks(_)
SweepTasks(rows) ==
    IF rows = <<>> THEN <<>>
    ELSE OrgTasks(Head(rows)) \o SweepTasks(Tail(rows))

TaskSet(tasks) == {tasks[i] : i \in 1..Len(tasks)}

NoSweep == [pc |-> "idle", todo |-> <<>>, attempted |-> {},
            outcome |-> "none"]

\* the callback runs on to its next await: the cleanup at the head of the
\* list computes its cutoff (line 183) and starts its delete, or the list is
\* done and the callback returns (lines 82-83)
SweepContinues(todo, attempted) ==
    IF todo = <<>>
    THEN /\ sweep' = [pc |-> "idle", todo |-> <<>>, attempted |-> attempted,
                      outcome |-> "completed"]
         /\ UNCHANGED cutoffTimestamp
    ELSE /\ sweep' = [pc |-> "deleting", todo |-> todo,
                      attempted |-> attempted, outcome |-> "none"]
         /\ cutoffTimestamp' =
                calculateCutoffTimestamp(Head(todo).retentionDays)

\* lines 10-17 and 85: the interval fires and the callback starts its select
SweepTick ==
    /\ processUp
    /\ sweep.pc = "idle"
    /\ sweepTicks < MaxSweeps
    /\ sweepTicks' = sweepTicks + 1
    /\ now' = now + SWEEP_PERIOD
    /\ sweep' = [pc |-> "selecting", todo |-> <<>>, attempted |-> {},
                 outcome |-> "none"]
    /\ UNCHANGED <<cacheVars, events, auditVars, queryVars, redirectVars,
                   tz, cutoffTimestamp, requestAuditLog, processUp,
                   disableAuditLogging, endpointVars>>

\* lines 17-46: the select of the orgs resolves
OrgsSelectReturns ==
    /\ sweep.pc = "selecting"
    /\ SweepContinues(SweepTasks(OrgsToClean(OrgRows)), {})
    /\ UNCHANGED <<now, cacheVars, events, auditVars, queryVars, redirectVars,
                   tz, requestAuditLog, sweepTicks, processUp,
                   disableAuditLogging, endpointVars>>

\* lines 17-34: the select of the orgs rejects.  The await is in no try
\* block, so the callback rejects and nothing handles the rejection: the
\* runtime ends the process (the default of Node 15 and later) unless a
\* handler for unhandled rejections was registered or the default changed
OrgsSelectThrows ==
    /\ sweep.pc = "selecting"
    /\ sweep' = [pc |-> "idle", todo |-> <<>>, attempted |-> {},
                 outcome |-> "aborted"]
    /\ unhandled' = unhandled \cup {"cleanup"}
    /\ processUp' \in BOOLEAN
    /\ UNCHANGED <<now, cacheVars, events, bufferVars, timerVars,
                   retentionVars, lastRetention, outcomeVars,
                   failedFlushCount, shutdownState, nextId, lastCall,
                   queryVars, redirectVars, tz, cutoffTimestamp,
                   requestAuditLog, sweepTicks, disableAuditLogging,
                   endpointVars>>

\* mutant: lte instead of lt: the record at the cutoff goes too
DeleteOldLogs_Lte(rows, orgId, cutoff) ==
    {r \in rows : ~(r.timestamp <= cutoff /\ r.orgId = orgId)}

\* lines 186-193: delete from requestAuditLog where timestamp < cutoff and
\* orgId = orgId
DeleteOldLogs(rows, orgId, cutoff) ==
    {r \in rows : ~(r.timestamp < cutoff /\ r.orgId = orgId)}

\* the delete of the cleanup at the head of the list resolves
DeleteReturns ==
    /\ sweep.pc = "deleting"
    /\ LET task == Head(sweep.todo)
       IN  /\ requestAuditLog' =
                IF task.category = "request"
                THEN DeleteOldLogs(requestAuditLog, task.orgId,
                                   cutoffTimestamp)
                ELSE requestAuditLog
           /\ SweepContinues(Tail(sweep.todo), sweep.attempted \cup {task})
    /\ UNCHANGED <<now, cacheVars, events, auditVars, queryVars, redirectVars,
                   tz, sweepTicks, processUp, disableAuditLogging,
                   endpointVars>>

\* the cleanUpOldLogs of the access and the action logs log a failed delete
\* and return, as the one of the request logs does
DynamicCleanupCatches == TRUE

\* lines 198-200: the delete rejects, cleanUpOldLogs logs the error and
\* returns
DeleteThrows ==
    /\ sweep.pc = "deleting"
    /\ Head(sweep.todo).category = "request" \/ DynamicCleanupCatches
    /\ SweepContinues(Tail(sweep.todo),
                      sweep.attempted \cup {Head(sweep.todo)})
    /\ UNCHANGED <<now, cacheVars, events, auditVars, queryVars, redirectVars,
                   tz, requestAuditLog, sweepTicks, processUp,
                   disableAuditLogging, endpointVars>>

(***************************************************************************)
(* queryUniqueFilterAttributes (server/nextServer.ts lines 232-354).  A    *)
(* string with colons is the sequence of the segments between them.        *)
(***************************************************************************)
\* line 239: the width of a time bucket, in seconds
FILTER_BUCKET == 900
\* line 350: cache.set(cacheKey, result, 900)
FILTER_CACHE_TTL == 900

\* Math.floor(t / 900) * 900
Bucket(t) == (t \div FILTER_BUCKET) * FILTER_BUCKET

\* `${n}` for the bucket starts of the model
Numeral(n) ==
    CASE n = 0 -> "0"
      [] n = 900 -> "900"
      [] n = 1800 -> "1800"

\* orgId is any string of the request path: "o1" and "o1:0"
FilterOrgIds == {<<"o1">>, <<"o1", "0">>}
TimeStarts == {100, 200}
TimeEnds == {1000, 1900}

\* mutant: the key leaves the org out
FilterCacheKey_NoOrg(orgId, timeStart, timeEnd) ==
    <<"filterAttrs">> \o
        <<Numeral(Bucket(timeStart)), Numeral(Bucket(timeEnd))>>

\* line 241: `filterAttrs:${orgId}:${roundedStart}:${roundedEnd}`
FilterCacheKey(orgId, timeStart, timeEnd) ==
    <<"filterAttrs">> \o orgId \o
        <<Numeral(Bucket(timeStart)), Numeral(Bucket(timeEnd))>>

FilterCallKey(c) == FilterCacheKey(c.orgId, c.timeStart, c.timeEnd)

\* lines 262-345: what the five queries select: the attributes of the rows
\* of the org between timeStart and timeEnd
FilterResult(c) ==
    [orgId |-> c.orgId, timeStart |-> c.timeStart, timeEnd |-> c.timeEnd]

NoFilterResult == [orgId |-> <<>>, timeStart |-> -1, timeEnd |-> -1]

FilterReturned(c, outcome, hit, result) ==
    [orgId |-> c.orgId, timeStart |-> c.timeStart, timeEnd |-> c.timeEnd,
     outcome |-> outcome, hit |-> hit, result |-> result]

\* lines 239-282: the call up to its await
QueryUniqueFilterAttributes(orgId, timeStart, timeEnd) ==
    /\ events < MaxQueryEvents
    /\ events' = events + 1
    /\ LET c == [orgId |-> orgId, timeStart |-> timeStart,
                 timeEnd |-> timeEnd]
       IN  IF CacheHas(cache, now, FilterCallKey(c))
           THEN /\ lastFilter' =
                    FilterReturned(c, "ok", TRUE,
                                   CacheGet(cache, now, FilterCallKey(c)))
                /\ UNCHANGED filterCalls
           ELSE /\ filterCalls' = filterCalls (+) SetToBag({c})
                /\ UNCHANGED lastFilter
    /\ UNCHANGED <<now, cacheVars, auditVars, queryVars, redirectVars,
                   cleanupVars, disableAuditLogging, filterFilledAt,
                   userVars, resourceVars>>

\* lines 282-353: the five queries resolve; the result is cached and returned
FilterQueriesReturn(c) ==
    /\ BagIn(c, filterCalls)
    /\ filterCalls' = filterCalls (-) SetToBag({c})
    /\ IF CacheFull(cache, otherKeys)
       THEN \* cache.set throws and the call rejects with it
            /\ lastFilter' = FilterReturned(c, "error", FALSE, NoFilterResult)
            /\ UNCHANGED <<cache, filterFilledAt>>
       ELSE /\ cache' = CacheSet(cache, now, FilterCallKey(c),
                                 FilterResult(c), FILTER_CACHE_TTL)
            /\ filterFilledAt' =
                    [k \in DOMAIN filterFilledAt \cup {FilterCallKey(c)} |->
                        IF k = FilterCallKey(c) THEN now
                        ELSE filterFilledAt[k]]
            /\ lastFilter' = FilterReturned(c, "ok", FALSE, FilterResult(c))
    /\ UNCHANGED <<now, otherKeys, events, auditVars, queryVars, redirectVars,
                   cleanupVars, disableAuditLogging, userVars,
                   resourceVars>>

\* line 282: one of the five queries rejects and Promise.all with it
FilterQueriesThrow(c) ==
    /\ BagIn(c, filterCalls)
    /\ events < MaxQueryEvents
    /\ events' = events + 1
    /\ filterCalls' = filterCalls (-) SetToBag({c})
    /\ lastFilter' = FilterReturned(c, "error", FALSE, NoFilterResult)
    /\ UNCHANGED <<now, cacheVars, auditVars, queryVars, redirectVars,
                   cleanupVars, disableAuditLogging, filterFilledAt,
                   userVars, resourceVars>>

(***************************************************************************)
(* server/routers/user/getUser.ts (lines 47-100)                           *)
(***************************************************************************)
\* line 73: cache.set(cacheKey, user, 60)
USER_CACHE_TTL == 60

UserIds == {"u1", "u2"}
\* the rows of users: u2 has none
StoredUsers == {"u1"}

\* line 62: `user:${userId}`
UserCacheKey(userId) == <<"user", userId>>

UserResponse(userId, status, hit) ==
    [userId |-> userId, status |-> status, hit |-> hit]

\* lines 52-69: the handler up to await queryUser(userId)
GetUser(userId) ==
    /\ events < MaxQueryEvents
    /\ events' = events + 1
    /\ IF CacheHas(cache, now, UserCacheKey(userId))
       THEN /\ lastUser' = UserResponse(userId, 200, TRUE)
            /\ UNCHANGED <<userCalls, userQueriedAt>>
       ELSE /\ userCalls' = userCalls (+) SetToBag({[userId |-> userId]})
            /\ userQueriedAt' = [userQueriedAt EXCEPT ![userId] = now]
            /\ UNCHANGED lastUser
    /\ UNCHANGED <<now, cacheVars, auditVars, queryVars, redirectVars,
                   cleanupVars, disableAuditLogging, filterVars,
                   resourceVars>>

\* lines 69-93: queryUser resolves
UserQueryReturns(c) ==
    /\ BagIn(c, userCalls)
    /\ userCalls' = userCalls (-) SetToBag({c})
    /\ IF c.userId \notin StoredUsers
       THEN \* lines 78-85: no row, nothing is cached, 404
            /\ lastUser' = UserResponse(c.userId, 404, FALSE)
            /\ UNCHANGED cache
       ELSE IF CacheFull(cache, otherKeys)
       THEN \* cache.set throws into the catch of lines 94-99: 500
            /\ lastUser' = UserResponse(c.userId, 500, FALSE)
            /\ UNCHANGED cache
       ELSE /\ cache' = CacheSet(cache, now, UserCacheKey(c.userId),
                                 [userId |-> c.userId], USER_CACHE_TTL)
            /\ lastUser' = UserResponse(c.userId, 200, FALSE)
    /\ UNCHANGED <<now, otherKeys, events, auditVars, queryVars, redirectVars,
                   cleanupVars, disableAuditLogging, filterVars,
                   userQueriedAt, resourceVars>>

\* lines 94-99: queryUser rejects, 500
UserQueryThrows(c) ==
    /\ BagIn(c, userCalls)
    /\ events < MaxQueryEvents
    /\ events' = events + 1
    /\ userCalls' = userCalls (-) SetToBag({c})
    /\ lastUser' = UserResponse(c.userId, 500, FALSE)
    /\ UNCHANGED <<now, cacheVars, auditVars, queryVars, redirectVars,
                   cleanupVars, disableAuditLogging, filterVars,
                   userQueriedAt, resourceVars>>

(***************************************************************************)
(* server/routers/resource/getResourceAuthInfo.ts (lines 41-185)           *)
(***************************************************************************)
\* line 170: cache.set(cacheKey, responseData, 60)
RESOURCE_CACHE_TTL == 60

ResourceGuids == {"g1", "g2"}
\* the rows of resources: g2 has none
StoredResources == {"g1"}

\* line 60: `resourceAuthInfo:${resourceGuid}`
ResourceCacheKey(guid) == <<"resourceAuthInfo", guid>>

ResourceResponse(guid, status, hit) ==
    [resourceGuid |-> guid, status |-> status, hit |-> hit]

\* lines 46-76: the handler up to the await of the select
GetResourceAuthInfo(guid) ==
    /\ events < MaxQueryEvents
    /\ events' = events + 1
    /\ IF CacheHas(cache, now, ResourceCacheKey(guid))
       THEN /\ lastResource' = ResourceResponse(guid, 200, TRUE)
            /\ UNCHANGED resourceCalls
       ELSE /\ resourceCalls' =
                    resourceCalls (+) SetToBag({[resourceGuid |-> guid]})
            /\ UNCHANGED lastResource
    /\ UNCHANGED <<now, cacheVars, auditVars, queryVars, redirectVars,
                   cleanupVars, disableAuditLogging, filterVars, userVars>>

\* lines 136-178: the select resolves
ResourceQueryReturns(c) ==
    /\ BagIn(c, resourceCalls)
    /\ resourceCalls' = resourceCalls (-) SetToBag({c})
    /\ IF c.resourceGuid \notin StoredResources
       THEN \* lines 137-141: no row, nothing is cached, 404
            /\ lastResource' = ResourceResponse(c.resourceGuid, 404, FALSE)
            /\ UNCHANGED cache
       ELSE IF CacheFull(cache, otherKeys)
       THEN \* cache.set throws into the catch of lines 179-184: 500
            /\ lastResource' = ResourceResponse(c.resourceGuid, 500, FALSE)
            /\ UNCHANGED cache
       ELSE /\ cache' = CacheSet(cache, now, ResourceCacheKey(c.resourceGuid),
                                 [resourceGuid |-> c.resourceGuid],
                                 RESOURCE_CACHE_TTL)
            /\ lastResource' = ResourceResponse(c.resourceGuid, 200, FALSE)
    /\ UNCHANGED <<now, otherKeys, events, auditVars, queryVars, redirectVars,
                   cleanupVars, disableAuditLogging, filterVars, userVars>>

\* lines 179-184: the select rejects, 500
ResourceQueryThrows(c) ==
    /\ BagIn(c, resourceCalls)
    /\ events < MaxQueryEvents
    /\ events' = events + 1
    /\ resourceCalls' = resourceCalls (-) SetToBag({c})
    /\ lastResource' = ResourceResponse(c.resourceGuid, 500, FALSE)
    /\ UNCHANGED <<now, cacheVars, auditVars, queryVars, redirectVars,
                   cleanupVars, disableAuditLogging, filterVars, userVars>>

(***************************************************************************)
(* Initial state: the module-level declarations (lines 30-65, 320)         *)
(***************************************************************************)
AuditInit ==
    /\ auditLogBuffer = <<>>
    /\ flushTimer = FALSE
    /\ flushTimerDue = 0
    /\ failedFlushCount = 0
    /\ inflightRetentionChecks = {}
    /\ retentionQueries = [o \in OrgIds |-> 0]
    /\ inflightFlushes = {}
    /\ retryTimers = [rc \in 1..maxRetries |-> 0]
    /\ monitoringInterval = TRUE
    /\ shutdownState = "running"
    /\ nextId = 1
    /\ attempts = [i \in RecordIds |-> 0]
    /\ bulkWrites = 0
    /\ lastRetention = [orgId |-> NoOrg, outcome |-> "none"]
    /\ unhandled = {}
    /\ inserted = [i \in RecordIds |-> 0]
    /\ lost = {}
    /\ lastCall = [kind |-> "none", orgId |-> NoOrg, cached |-> -1,
                   checking |-> FALSE, buffered |-> FALSE]

QueryInit ==
    /\ db = [fn \in Lookups |-> Row]
    /\ dbChangedAt = [fn \in Lookups |-> -1]
    /\ lastRead = [fn \in Lookups |-> NoValue]
    /\ lookups = EmptyBag
    /\ lastReturn = [fn |-> NoValue, outcome |-> NoValue,
                     value |-> NoValue, hit |-> FALSE, wroteCache |-> FALSE,
                     allowed |-> FALSE]

RedirectInit ==
    /\ request = NoRequest
    /\ response = NoResponse
    /\ phase = "idle"
    /\ hops = 0
    /\ redirects = 0
    /\ target = <<>>

\* no call of the cached endpoints has been made
EndpointInit ==
    /\ filterCalls = EmptyBag
    /\ lastFilter = [orgId |-> <<>>, timeStart |-> -1, timeEnd |-> -1,
                     outcome |-> NoValue, hit |-> FALSE,
                     result |-> NoFilterResult]
    /\ filterFilledAt = <<>>
    /\ userCalls = EmptyBag
    /\ lastUser = [userId |-> NoValue, status |-> 0, hit |-> FALSE]
    /\ userQueriedAt = [u \in UserIds |-> -1]
    /\ resourceCalls = EmptyBag
    /\ lastResource = [resourceGuid |-> NoValue, status |-> 0, hit |-> FALSE]

\* the log cleanup has not run; DISABLE_AUDIT_LOGGING is not set
ServiceInit ==
    /\ tz = 0
    /\ cutoffTimestamp = -1
    /\ requestAuditLog = {}
    /\ sweep = NoSweep
    /\ sweepTicks = 0
    /\ processUp = TRUE
    /\ disableAuditLogging = FALSE
    /\ EndpointInit

Init ==
    /\ now = 0
    /\ events = 0
    /\ cache = <<>>
    /\ otherKeys = 0
    /\ AuditInit
    /\ disableSessionQueries = FALSE
    /\ QueryInit
    /\ RedirectInit
    /\ ServiceInit

(***************************************************************************)
(* Spec: the audit batcher under load from one org with retention enabled, *)
(* storage accepting or rejecting each bulk insert.                        *)
(***************************************************************************)
Next ==
    \/ LogRequestAudit("orgB")
    \/ RetentionQueryReturns("orgB")
    \/ RetentionQueryThrows("orgB")
    \/ FlushTimerFires
    \/ \E rc \in 1..maxRetries : RetryTimerFires(rc)
    \/ MonitoringTick
    \/ \E f \in inflightFlushes : InsertSucceeds(f)
    \/ \E f \in inflightFlushes : InsertFails(f)
    \/ ShutdownAuditLogger

Spec == Init /\ [][Next]_vars

(***************************************************************************)
(* SpecRetention: the retention gate of logRequestAudit for every org,     *)
(* storage accepting every bulk insert.                                    *)
(***************************************************************************)
NextRetention ==
    \/ \E o \in Orgs : LogRequestAudit(o)
    \/ \E o \in Orgs : RetentionQueryReturns(o)
    \/ \E o \in Orgs : RetentionQueryThrows(o)
    \/ FlushTimerFires
    \/ \E f \in inflightFlushes : InsertSucceeds(f)
    \/ AdvanceTime(RETENTION_TTL, MaxEvents)

SpecRetention == Init /\ [][NextRetention]_vars

(***************************************************************************)
(* SpecBurst: decisions without an org arrive while storage accepts every  *)
(* bulk insert; the clock starts at the first decision.                    *)
(***************************************************************************)
NextBurst ==
    \/ LogRequestAudit(NoOrg)
    \/ FlushTimerExpires
    \/ \E f \in inflightFlushes : InsertSucceeds(f)
    \/ nextId > 1 /\ TimePasses

SpecBurst == Init /\ [][NextBurst]_vars

(***************************************************************************)
(* SpecLive: the batcher when every armed timer fires and storage answers  *)
(* every bulk insert, with success or with failure: setTimeout callbacks   *)
(* run once the event loop is free, and an answered insert resumes         *)
(* flushAuditLogs.                                                         *)
(***************************************************************************)
NextLive ==
    \/ nextId <= MaxLiveRecords /\ LogRequestAudit(NoOrg)
    \/ FlushTimerFires
    \/ \E rc \in 1..maxRetries : RetryTimerFires(rc)
    \/ \E f \in inflightFlushes : InsertSucceeds(f)
    \/ \E f \in inflightFlushes : InsertFails(f)
    \/ ShutdownAuditLogger

StorageAnswers ==
    \E f \in inflightFlushes : InsertSucceeds(f) \/ InsertFails(f)

SpecLive ==
    /\ Init
    /\ [][NextLive]_vars
    /\ WF_vars(FlushTimerFires)
    /\ \A rc \in 1..maxRetries : WF_vars(RetryTimerFires(rc))
    /\ WF_vars(StorageAnswers)

(***************************************************************************)
(* SpecUnanswered: as SpecLive, but storage may leave a bulk insert        *)
(* without an answer: the await of line 80 has no timeout, and nothing     *)
(* else settles the insert.                                                *)
(***************************************************************************)
SpecUnanswered ==
    /\ Init
    /\ [][NextLive]_vars
    /\ WF_vars(FlushTimerFires)
    /\ \A rc \in 1..maxRetries : WF_vars(RetryTimerFires(rc))

(***************************************************************************)
(* SpecTimed: the batcher with the flush timer on the clock, storage       *)
(* accepting or rejecting each bulk insert.  The retry timers may fire at  *)
(* any time.                                                               *)
(***************************************************************************)
NextTimed ==
    \/ nextId <= MaxTimedRecords /\ LogRequestAudit(NoOrg)
    \/ FlushTimerExpires
    \/ \E rc \in 1..maxRetries : RetryTimerFires(rc)
    \/ \E f \in inflightFlushes : InsertSucceeds(f)
    \/ \E f \in inflightFlushes : InsertFails(f)
    \/ TimePasses

SpecTimed == Init /\ [][NextTimed]_vars

(***************************************************************************)
(* SpecExpiry: the session lookup and the retention gate of one org on a   *)
(* clock that reaches the expiry of their cache entries, while the row the *)
(* lookup selects changes.                                                 *)
(***************************************************************************)
ExpiryLookups == {"getUserSessionWithUser"}

NextExpiry ==
    \/ \E fn \in ExpiryLookups : LookupStart(fn)
    \/ \E l \in BagToSet(lookups) : DbExecutes(l)
    \/ \E l \in BagToSet(lookups) : LookupReturns(l)
    \/ \E fn \in ExpiryLookups : StorageWrite(fn)
    \/ nextId <= MaxExpiryCalls /\ LogRequestAudit("orgB")
    \/ RetentionQueryReturns("orgB")
    \/ ClockAdvances

SpecExpiry == Init /\ [][NextExpiry]_vars

(***************************************************************************)
(* SpecCacheFull: the lookups and the retention gate of one org when the   *)
(* other callers of the shared cache have filled it up to a few free       *)
(* slots.                                                                  *)
(***************************************************************************)
InitCacheFull ==
    /\ now = 0
    /\ events = 0
    /\ cache = <<>>
    /\ otherKeys = maxKeys - MaxFreeSlots
    /\ AuditInit
    /\ disableSessionQueries = FALSE
    /\ QueryInit
    /\ RedirectInit
    /\ ServiceInit

NextCacheFull ==
    \/ \E fn \in Lookups : LookupStart(fn)
    \/ \E l \in BagToSet(lookups) : DbExecutes(l)
    \/ \E l \in BagToSet(lookups) : LookupReturns(l)
    \/ \E l \in BagToSet(lookups) : LookupThrows(l)
    \/ nextId <= MaxExpiryCalls /\ LogRequestAudit("orgB")
    \/ RetentionQueryReturns("orgB")
    \/ OtherCallerSets
    \/ OtherKeyExpires

SpecCacheFull == InitCacheFull /\ [][NextCacheFull]_vars

(***************************************************************************)
(* SpecSustained: a stream of decisions for one org with a row and one     *)
(* without, on a clock that reaches the expiry of the retention entry;     *)
(* the retention query may be rejected.  Storage leaves the bulk inserts   *)
(* pending.                                                                *)
(***************************************************************************)
SustainedOrgs == {"orgB", DeletedOrg}

NextSustained ==
    \/ \E o \in SustainedOrgs : LogRequestAudit(o)
    \/ \E o \in SustainedOrgs : RetentionQueryReturns(o)
    \/ \E o \in SustainedOrgs : RetentionQueryThrows(o)
    \/ ClockAdvances

SpecSustained == Init /\ [][NextSustained]_vars

(***************************************************************************)
(* SpecQueries: concurrent calls of the lookups of verifySessionQueries,   *)
(* with the feature flag as the environment sets it at start.              *)
(***************************************************************************)
InitQueries ==
    /\ now = 0
    /\ events = 0
    /\ cache = <<>>
    /\ otherKeys = 0
    /\ AuditInit
    /\ disableSessionQueries \in BOOLEAN
    /\ QueryInit
    /\ RedirectInit
    /\ ServiceInit

NextQueries ==
    \/ \E fn \in Lookups : LookupStart(fn)
    \/ \E l \in BagToSet(lookups) : DbExecutes(l)
    \/ \E l \in BagToSet(lookups) : LookupReturns(l)
    \/ \E l \in BagToSet(lookups) : LookupThrows(l)
    \/ \E fn \in Lookups : StorageWrite(fn)
    \/ AdvanceTime(SESSION_CACHE_TTL \div 2, MaxQueryEvents)

SpecQueries == InitQueries /\ [][NextQueries]_vars

(***************************************************************************)
(* SpecCleanup: the log-cleanup interval around the turn of a year, in a   *)
(* process whose local time is behind, at or ahead of UTC; storage answers *)
(* or rejects each statement.                                              *)
(***************************************************************************)
\* four hours before the turn of a year, and the middle of a year
SweepStarts ==
    {DateUTC(2026) - 4 * 60 * 60, DateUTC(2027) - 4 * 60 * 60,
     DateUTC(2026) + 180 * 24 * 60 * 60}

\* the request logs in storage when the process starts at instant t
StoredLogs(t) ==
    {[orgId |-> "orgC", timestamp |-> DateUTC(2024) - 12 * 60 * 60],
     [orgId |-> "orgC", timestamp |-> DateUTC(2025) - 12 * 60 * 60],
     [orgId |-> "orgC", timestamp |-> DateUTC(2025) + 24 * 60 * 60],
     [orgId |-> "orgC", timestamp |-> DateUTC(2026) - 12 * 60 * 60],
     [orgId |-> "orgB", timestamp |-> t - 31 * 24 * 60 * 60],
     [orgId |-> "orgB", timestamp |-> t - 29 * 24 * 60 * 60],
     [orgId |-> "orgB", timestamp |-> t + SWEEP_PERIOD - 30 * 24 * 60 * 60],
     [orgId |-> "orgA", timestamp |-> t - 100 * 24 * 60 * 60],
     [orgId |-> "orgD", timestamp |-> t - 100 * 24 * 60 * 60]}

InitCleanup ==
    /\ now \in SweepStarts
    /\ events = 0
    /\ cache = <<>>
    /\ otherKeys = 0
    /\ AuditInit
    /\ disableSessionQueries = FALSE
    /\ QueryInit
    /\ RedirectInit
    /\ tz \in TZOffsets
    /\ cutoffTimestamp = -1
    /\ requestAuditLog = StoredLogs(now)
    /\ sweep = NoSweep
    /\ sweepTicks = 0
    /\ processUp = TRUE
    /\ disableAuditLogging = FALSE
    /\ EndpointInit

NextCleanup ==
    \/ SweepTick
    \/ OrgsSelectReturns
    \/ OrgsSelectThrows
    \/ DeleteReturns
    \/ DeleteThrows

SpecCleanup == InitCleanup /\ [][NextCleanup]_vars

(***************************************************************************)
(* SpecAuditFlag: the audit batcher in a process started with or without   *)
(* DISABLE_AUDIT_LOGGING=true (featureFlags.ts reads the environment once, *)
(* at module load), for decisions with and without an org; storage accepts *)
(* every bulk insert.                                                      *)
(***************************************************************************)
InitAuditFlag ==
    /\ now = 0
    /\ events = 0
    /\ cache = <<>>
    /\ otherKeys = 0
    /\ AuditInit
    /\ disableSessionQueries = FALSE
    /\ QueryInit
    /\ RedirectInit
    /\ tz = 0
    /\ cutoffTimestamp = -1
    /\ requestAuditLog = {}
    /\ sweep = NoSweep
    /\ sweepTicks = 0
    /\ processUp = TRUE
    /\ disableAuditLogging \in BOOLEAN
    /\ EndpointInit

AuditFlagOrgs == {NoOrg, "orgB"}

NextAuditFlag ==
    \/ \E o \in AuditFlagOrgs : LogRequestAudit(o)
    \/ RetentionQueryReturns("orgB")
    \/ FlushTimerFires
    \/ \E f \in inflightFlushes : InsertSucceeds(f)

SpecAuditFlag == InitAuditFlag /\ [][NextAuditFlag]_vars

(***************************************************************************)
(* SpecSessionFlag: calls of all seven lookups of verifySessionQueries in  *)
(* a process started with or without DISABLE_SESSION_QUERIES=true.         *)
(***************************************************************************)
InitSessionFlag ==
    /\ now = 0
    /\ events = 0
    /\ cache = <<>>
    /\ otherKeys = 0
    /\ AuditInit
    /\ disableSessionQueries \in BOOLEAN
    /\ db = [fn \in AllLookups |-> StoredResult(fn)]
    /\ dbChangedAt = [fn \in AllLookups |-> -1]
    /\ lastRead = [fn \in AllLookups |-> NoValue]
    /\ lookups = EmptyBag
    /\ lastReturn = [fn |-> NoValue, outcome |-> NoValue,
                     value |-> NoValue, hit |-> FALSE, wroteCache |-> FALSE,
                     allowed |-> FALSE]
    /\ RedirectInit
    /\ ServiceInit

NextSessionFlag ==
    \/ \E fn \in AllLookups : LookupStart(fn)
    \/ \E l \in BagToSet(lookups) : DbExecutes(l)
    \/ \E l \in BagToSet(lookups) : LookupReturns(l)
    \/ \E l \in BagToSet(lookups) : LookupThrows(l)

SpecSessionFlag == InitSessionFlag /\ [][NextSessionFlag]_vars

(***************************************************************************)
(* SpecFilter: concurrent requests for the filter attributes of two orgs   *)
(* over time ranges in the same and in different buckets, on a clock that  *)
(* reaches the expiry of a cached result.                                  *)
(***************************************************************************)
NextFilter ==
    \/ \E o \in FilterOrgIds, ts \in TimeStarts, te \in TimeEnds :
            QueryUniqueFilterAttributes(o, ts, te)
    \/ \E c \in BagToSet(filterCalls) : FilterQueriesReturn(c)
    \/ \E c \in BagToSet(filterCalls) : FilterQueriesThrow(c)
    \/ AdvanceTime(FILTER_CACHE_TTL \div 2, MaxQueryEvents)

SpecFilter == Init /\ [][NextFilter]_vars

(***************************************************************************)
(* SpecUser: concurrent getUser requests for a user with a row and one     *)
(* without, on a clock that reaches the expiry of a cached user.           *)
(***************************************************************************)
NextUser ==
    \/ \E u \in UserIds : GetUser(u)
    \/ \E c \in BagToSet(userCalls) : UserQueryReturns(c)
    \/ \E c \in BagToSet(userCalls) : UserQueryThrows(c)
    \/ AdvanceTime(USER_CACHE_TTL \div 2, MaxQueryEvents)

SpecUser == Init /\ [][NextUser]_vars

(***************************************************************************)
(* SpecNotFound: the cached lookups while their rows are deleted and       *)
(* created, and getUser and getResourceAuthInfo asked for keys with and    *)
(* without a row.                                                          *)
(***************************************************************************)
NextNotFound ==
    \/ \E fn \in CachedLookups : LookupStart(fn)
    \/ \E l \in BagToSet(lookups) : DbExecutes(l)
    \/ \E l \in BagToSet(lookups) : LookupReturns(l)
    \/ \E fn \in CachedLookups : StorageWrite(fn)
    \/ \E u \in UserIds : GetUser(u)
    \/ \E c \in BagToSet(userCalls) : UserQueryReturns(c)
    \/ \E g \in ResourceGuids : GetResourceAuthInfo(g)
    \/ \E c \in BagToSet(resourceCalls) : ResourceQueryReturns(c)
    \/ \E c \in BagToSet(resourceCalls) : ResourceQueryThrows(c)
    \/ AdvanceTime(SESSION_CACHE_TTL \div 2, MaxQueryEvents)

SpecNotFound == Init /\ [][NextNotFound]_vars

(***************************************************************************)
(* SpecRedirect: chains of denied requests in which the client follows     *)
(* every redirect it is given.                                             *)
(***************************************************************************)
NextRedirect ==
    \/ \E p \in Paths, q \in Queries, g \in Guids : ClientRequest(p, q, g)
    \/ VerifyDenies
    \/ ClientFollows
    \/ ChainEnds

SpecRedirect == Init /\ [][NextRedirect]_vars

(***************************************************************************)
(* Claims about the audit batcher                                          *)
(***************************************************************************)
\* C1: the length of auditLogBuffer never exceeds MAX_BUFFER_SIZE.
\* The code re-queues every failed batch in front of whatever has arrived
\* since and never trims, so the statement is violated.
C1_BufferBounded == Len(auditLogBuffer) <= MAX_BUFFER_SIZE

\* C3: no record is part of two successful bulk inserts, no record is at the
\* same time in the buffer and in an in-flight batch, and no record is in
\* two in-flight batches.
C3_AtMostOnce ==
    /\ \A i \in RecordIds : inserted[i] <= 1
    /\ Ids(auditLogBuffer) \cap InFlightIds = {}
    /\ \A f, g \in inflightFlushes :
            f # g => Ids(f.logsToWrite) \cap Ids(g.logsToWrite) = {}
    /\ \A i \in RecordIds : inserted[i] = 1 =>
            i \notin Ids(auditLogBuffer) \cup InFlightIds

\* C3 witness: a record written on a later attempt than its first, while
\* another batch is in flight and the buffer holds records.
C3_Witness ==
    /\ \E i \in RecordIds : inserted[i] = 1 /\ attempts[i] >= 2
    /\ inflightFlushes # {}
    /\ Len(auditLogBuffer) > 0

\* C4: every record is included in at most maxRetries + 1 bulk-write
\* attempts.  The retry count belongs to the call chain, not to the
\* records: a size-triggered or shutdown flush takes re-queued records into
\* a new chain that starts at retryCount 0, so the statement is violated.
C4_BoundedAttempts == \A i \in RecordIds : attempts[i] <= maxRetries + 1

\* C10: when a batch is dropped after its last retry, a lost-records counter
\* grows by the size of the batch.  The only counter of the code,
\* failedFlushCount, grows by one per failed attempt, so the statement is
\* violated.
C10_LostCounter ==
    [][lost' # lost =>
        failedFlushCount' = failedFlushCount + Cardinality(lost' \ lost)]_vars

\* C11: with storage always succeeding, the N records of one BATCH_INTERVAL
\* produce exactly ceil(N / BATCH_SIZE) bulk writes of at most BATCH_SIZE
\* records each and none is dropped: until the timer armed by the first
\* record fires there have been floor(N / BATCH_SIZE) writes, its firing
\* brings them to ceil(N / BATCH_SIZE), no record of the interval stays
\* buffered past it, and every record is inserted exactly once.
C11_DuringBurst ==
    /\ \A f \in inflightFlushes : Len(f.logsToWrite) <= BATCH_SIZE
    /\ lost = {}
    /\ \A i \in RecordIds : inserted[i] <= 1
    /\ (nextId > 1 /\ flushTimer /\ flushTimerDue = BATCH_INTERVAL)
            => /\ bulkWrites = (nextId - 1) \div BATCH_SIZE
               /\ Len(auditLogBuffer) = (nextId - 1) % BATCH_SIZE
    /\ now > BATCH_INTERVAL
            => \A i \in 1..Len(auditLogBuffer) :
                    auditLogBuffer[i].timestamp >= BATCH_INTERVAL
    /\ (auditLogBuffer = <<>> /\ inflightFlushes = {})
            => \A i \in 1..(nextId - 1) : inserted[i] = 1

C11_BurstWrites ==
    /\ []C11_DuringBurst
    /\ [][(flushTimer /\ ~flushTimer' /\ flushTimerDue = BATCH_INTERVAL)
            => bulkWrites' =
                    (nextId - 1 + BATCH_SIZE - 1) \div BATCH_SIZE]_vars

\* C11 witness: five records of one interval have been written in three
\* bulk writes.
C11_Witness ==
    /\ nextId = 6
    /\ bulkWrites = 3
    /\ now = BATCH_INTERVAL
    /\ ~flushTimer
    /\ \A i \in 1..5 : inserted[i] = 1

\* the records of the buffer that no bulk write has held yet
Unattempted ==
    {i \in 1..Len(auditLogBuffer) : attempts[auditLogBuffer[i].id] = 0}

\* C12 as stated: a record that no bulk write has held is never in a buffer
\* of BATCH_SIZE or more records, nor in the buffer for more than
\* BATCH_INTERVAL.  Violated when a failed batch is put back in front of it.
C12_FlushedAtSizeOrInterval ==
    \A i \in Unattempted :
        /\ Len(auditLogBuffer) < BATCH_SIZE
        /\ now <= auditLogBuffer[i].timestamp + BATCH_INTERVAL

\* C12 amended: a logRequestAudit call that brings the buffer to BATCH_SIZE
\* or more records flushes all of it at once, and every record that no
\* bulk write has held has a flush timer pending that is due no later than
\* BATCH_INTERVAL after the record was pushed.
C12_FlushedOnPushOrInterval ==
    /\ [](\A i \in Unattempted :
            /\ flushTimer
            /\ flushTimerDue <= auditLogBuffer[i].timestamp + BATCH_INTERVAL
            /\ now <= flushTimerDue)
    /\ [][nextId' # nextId => Len(auditLogBuffer') < BATCH_SIZE]_vars

\* C12 witness: a record waits for its timer behind a batch that failed and
\* was put back, in a buffer of BATCH_SIZE or more records.
C12_Witness ==
    /\ Unattempted # {}
    /\ Len(auditLogBuffer) >= BATCH_SIZE
    /\ flushTimer
    /\ now > 0

\* C13: logRequestAudit returns in the step that calls it, whatever storage
\* is doing: the call settles no pending insert or retention query, its
\* record is in the buffer or in a batch handed to storage when it returns,
\* and no rejection of a retention query or of a bulk insert is ever left
\* unhandled or reaches a caller.
C13_NeverBlocksNorThrows ==
    /\ [](unhandled = {})
    /\ [][nextId' # nextId =>
            /\ lastCall'.buffered
            /\ \/ nextId \in Ids(auditLogBuffer')
               \/ \E f \in inflightFlushes' : nextId \in Ids(f.logsToWrite)
            /\ inflightFlushes \subseteq inflightFlushes'
            /\ \A o \in OrgIds : retentionQueries'[o] >= retentionQueries[o]
            /\ inserted' = inserted
            /\ lost' = lost
            /\ failedFlushCount' = failedFlushCount]_vars
    /\ [][(inserted' # inserted \/ lost' # lost
            \/ failedFlushCount' > failedFlushCount
            \/ lastRetention' # lastRetention) => lastCall' = lastCall]_vars

\* C13 witness: a call returned with its record buffered while a bulk insert
\* was pending, after an insert had failed and the retention query of the
\* org had been rejected.
C13_Witness ==
    /\ lastCall.kind = "call"
    /\ lastCall.buffered
    /\ nextId - 1 \in Ids(auditLogBuffer)
    /\ inflightFlushes # {}
    /\ failedFlushCount > 0
    /\ lastRetention.outcome = "threw"

\* C14: when shutdownAuditLogger resolves, the buffer is empty and every
\* record that was pending at the call is written: the records of the batch
\* the call awaited have been inserted, and a call that found the buffer
\* empty left no batch in flight.
C14_DrainedAtShutdown ==
    [][(shutdownState # "stopped" /\ shutdownState' = "stopped") =>
            /\ auditLogBuffer' = <<>>
            /\ \A f \in inflightFlushes : f.awaited =>
                    \A i \in Ids(f.logsToWrite) : inserted'[i] >= 1
            /\ shutdownState = "running" => inflightFlushes = {}]_vars

\* C15: a logRequestAudit call that finds MAX_BUFFER_SIZE or more records in
\* the buffer removes the oldest ones down to BATCH_SIZE: the removed
\* records are neither kept in the buffer nor handed to storage, and the
\* module's failure counter grows by the number removed.
C15_DropsOldestAtMax ==
    [][(nextId' # nextId /\ Len(auditLogBuffer) >= MAX_BUFFER_SIZE) =>
            LET excess == Len(auditLogBuffer) - BATCH_SIZE
                dropped == {auditLogBuffer[i].id : i \in 1..excess}
            IN  /\ dropped \cap Ids(auditLogBuffer') = {}
                /\ \A f \in inflightFlushes' \ inflightFlushes :
                        dropped \cap Ids(f.logsToWrite) = {}
                /\ failedFlushCount' = failedFlushCount + excess]_vars

\* C21: at no time do two executions of flushAuditLogs have a bulk insert
\* in flight.
C21_SingleFlushOwner == Cardinality(inflightFlushes) <= 1

\* C22: a flush failure does not stop flush scheduling.  Every record is
\* eventually included in a bulk-write attempt, also when it is recorded
\* after a failure, and once records stop arriving the buffer becomes
\* empty and stays empty, with no insert in flight and every record
\* persisted or dropped.
C22_SchedulingSurvivesFailure ==
    <>[](/\ auditLogBuffer = <<>>
         /\ inflightFlushes = {}
         /\ \A i \in 1..(nextId - 1) :
                /\ attempts[i] > 0
                /\ inserted[i] > 0 \/ i \in lost)

\* C22 witness: after a batch was dropped on its last failure, a record
\* recorded afterwards has been persisted and nothing is pending.
C22_Witness ==
    /\ lost # {}
    /\ \E i \in 1..(nextId - 1) :
            /\ i \notin lost
            /\ \A j \in lost : j < i
            /\ attempts[i] = 1
            /\ inserted[i] = 1
    /\ auditLogBuffer = <<>>
    /\ inflightFlushes = {}

\* C23: a bulk insert that storage never answers is ended as a failure, so
\* no batch stays in flight forever and a shutdownAuditLogger call that
\* awaits a flush always resolves.
C23_NoInsertHangs ==
    /\ <>[](inflightFlushes = {})
    /\ (shutdownState = "draining") ~> (shutdownState = "stopped")

(***************************************************************************)
(* Claims about the retention gate                                         *)
(***************************************************************************)
\* C5 as stated: a call for an org whose retention is 0 days never buffers,
\* whatever the state of the cache.  Violated on a cache miss.
C5_DiscardWhateverCacheState ==
    (lastCall.kind = "call" /\ lastCall.orgId \in Orgs
        /\ settingsLogRetentionDaysRequest(lastCall.orgId) = 0)
    => ~lastCall.buffered

\* C5 amended: a call that finds the value 0 in the cache discards the
\* decision; a call that finds no cached value buffers it.
C5_DiscardWhenCachedZero ==
    lastCall.kind = "call" =>
        /\ lastCall.cached = 0 => ~lastCall.buffered
        /\ lastCall.cached = -1 => lastCall.buffered

\* C5 witness: a call for the org with retention 0 was discarded on a hit.
C5_Witness ==
    /\ lastCall.kind = "call"
    /\ lastCall.orgId = "orgA"
    /\ lastCall.cached = 0
    /\ ~lastCall.buffered
    /\ nextId > 1

\* C7: an org is in inflightRetentionChecks iff exactly one getRetentionDays
\* query for it is running, and never more than one is.
C7_InflightIffOneQuery ==
    \A o \in Orgs :
        /\ retentionQueries[o] <= 1
        /\ o \in inflightRetentionChecks <=> retentionQueries[o] = 1

\* C7 witness: a call arrived for an org while its check was in flight.
C7_Witness ==
    /\ lastCall.kind = "call"
    /\ lastCall.checking
    /\ lastCall.orgId \in inflightRetentionChecks
    /\ retentionQueries[lastCall.orgId] = 1

\* C19: when the retention query of an org is rejected, the step that
\* handles the rejection takes the org out of inflightRetentionChecks and
\* writes nothing to the cache; no live retention value is cached for the
\* org afterwards, and the next logRequestAudit call for it starts a new
\* query.
C19_RetryAfterFailure ==
    /\ [][\A o \in Orgs :
            (retentionQueries'[o] < retentionQueries[o]
                    /\ lastRetention'.outcome = "threw") =>
                /\ lastRetention'.orgId = o
                /\ o \notin inflightRetentionChecks'
                /\ cache' = cache]_vars
    /\ [](\A o \in Orgs :
            (lastRetention = [orgId |-> o, outcome |-> "threw"]
                    /\ o \notin inflightRetentionChecks) =>
                ~Live(RetentionKey(o)))
    /\ [][\A o \in Orgs :
            (lastRetention = [orgId |-> o, outcome |-> "threw"]
                    /\ o \notin inflightRetentionChecks
                    /\ events' # events /\ lastCall'.orgId = o
                    /\ lastRetention' = lastRetention /\ now' = now) =>
                /\ nextId' = nextId + 1
                /\ retentionQueries'[o] = retentionQueries[o] + 1
                /\ o \in inflightRetentionChecks']_vars

\* C19 witness: after the rejection of an org's retention query, the next
\* call for the org has started a new one.
C19_Witness ==
    /\ lastRetention.outcome = "threw"
    /\ lastCall.orgId = lastRetention.orgId
    /\ ~lastCall.checking
    /\ lastCall.buffered
    /\ lastRetention.orgId \in inflightRetentionChecks
    /\ retentionQueries[lastRetention.orgId] = 1
    /\ nextId > 2

\* C20 as stated: once a retention lookup for an org has completed, no
\* further retention query is started for the org during the RETENTION_TTL
\* seconds that follow (here: the first RETENTION_TTL seconds of the run).
C20_OneQueryAfterCompletion ==
    [][\A o \in OrgIds :
            (lastRetention.orgId = o /\ now' < RETENTION_TTL) =>
                retentionQueries'[o] <= retentionQueries[o]]_vars

\* C20 amended: while the retention value cached by a completed lookup has not
\* expired, no retention query for the org is in flight or is started, and
\* the org is not in inflightRetentionChecks; a query is started only when
\* no live value is cached, one at a time, and its completion takes the org
\* out of the in-flight set.
C20_OneQueryPerWindow ==
    /\ [](\A o \in OrgIds :
            /\ retentionQueries[o] <= 1
            /\ Live(RetentionKey(o)) =>
                    /\ retentionQueries[o] = 0
                    /\ o \notin inflightRetentionChecks)
    /\ [][\A o \in OrgIds :
            /\ Live(RetentionKey(o)) => retentionQueries'[o] = 0
            /\ retentionQueries'[o] > retentionQueries[o] =>
                    /\ retentionQueries[o] = 0
                    /\ RetentionKey(o) \in DOMAIN cache =>
                            now >= cache[RetentionKey(o)].expiresAt
            /\ retentionQueries'[o] < retentionQueries[o] =>
                    o \notin inflightRetentionChecks'
            /\ (RetentionKey(o) \in DOMAIN cache'
                    /\ (RetentionKey(o) \notin DOMAIN cache
                        \/ cache'[RetentionKey(o)] # cache[RetentionKey(o)])) =>
                    cache'[RetentionKey(o)].expiresAt = now + RETENTION_TTL]_vars

\* C20 witness: in a stream of calls for one org, the latest call found the
\* cached value some time after the lookup completed and nothing is in
\* flight.
C20_Witness ==
    /\ Live(RetentionKey("orgB"))
    /\ now = RETENTION_TTL - 1
    /\ lastCall.orgId = "orgB"
    /\ lastCall.cached > 0
    /\ nextId >= 4
    /\ inflightRetentionChecks = {}
    /\ cache[RetentionKey("orgB")].expiresAt = RETENTION_TTL

(***************************************************************************)
(* Claims about the lookups of verifySessionQueries                        *)
(***************************************************************************)
\* C2: a lookup whose storage query fails surfaces an error, produces no
\* resource or grant value, caches nothing, and the authorization outcome
\* is allowed = false.
C2_FailClosed ==
    /\ lastReturn.outcome = "error" =>
            /\ lastReturn.value = NoValue
            /\ ~lastReturn.wroteCache
            /\ ~lastReturn.allowed
    /\ lastReturn.allowed => lastReturn.outcome = "ok" /\ lastReturn.value = Row

\* C2 witness: a cached lookup missed, its query failed, and the key is
\* still absent from the cache.
C2_Witness ==
    /\ lastReturn.outcome = "error"
    /\ lastReturn.fn = "getUserSessionWithUser"
    /\ CacheKey(lastReturn.fn) \notin DOMAIN cache

\* C6: lookups for the same cold key share one storage query: at no time
\* are two storage queries of one cached lookup in flight for the same key.
\* The code has no in-flight guard on these lookups, so every caller that
\* misses issues its own query and the statement is violated.
C6_SingleQueryPerKey ==
    \A fn \in CachedLookups : Pending(lookups, fn) <= 1

(***************************************************************************)
(* Claims about the cache                                                  *)
(***************************************************************************)
\* C16: an entry written by a cached lookup expires SESSION_CACHE_TTL after
\* the write, the retention entry RETENTION_TTL after it.  A read before
\* the expiry returns the stored value without a storage query; a read at
\* or after the expiry finds nothing and queries storage again.
C16_ServedUntilExpiry ==
    /\ [][\A k \in DOMAIN cache' :
            (k \notin DOMAIN cache \/ cache'[k] # cache[k]) =>
                cache'[k].expiresAt = now +
                    (IF k = RetentionKey("orgB") THEN RETENTION_TTL
                     ELSE SESSION_CACHE_TTL)]_vars
    /\ [][\A fn \in ExpiryLookups :
            /\ (lastReturn' # lastReturn /\ lastReturn'.fn = fn
                    /\ lastReturn'.hit) =>
                    /\ Live(CacheKey(fn))
                    /\ lastReturn'.value = cache[CacheKey(fn)].value
            /\ Pending(lookups', fn) > Pending(lookups, fn) =>
                    ~Live(CacheKey(fn))
            /\ (events' # events /\ now' = now /\ db' = db
                    /\ nextId' = nextId
                    /\ retentionQueries' = retentionQueries) =>
                    IF Live(CacheKey(fn))
                    THEN lastReturn'.hit /\ lookups' = lookups
                    ELSE Pending(lookups', fn) = Pending(lookups, fn) + 1]_vars
    /\ [][nextId' # nextId =>
            IF Live(RetentionKey("orgB"))
            THEN /\ lastCall'.cached = cache[RetentionKey("orgB")].value
                 /\ retentionQueries' = retentionQueries
            ELSE /\ lastCall'.cached = -1
                 /\ "orgB" \notin inflightRetentionChecks =>
                        retentionQueries'["orgB"] =
                            retentionQueries["orgB"] + 1]_vars

\* C16 witness: the session entry and the retention entry have both expired
\* and the first read after each expiry has a storage query pending.
C16_Witness ==
    /\ CacheKey("getUserSessionWithUser") \in DOMAIN cache
    /\ ~Live(CacheKey("getUserSessionWithUser"))
    /\ Pending(lookups, "getUserSessionWithUser") > 0
    /\ RetentionKey("orgB") \in DOMAIN cache
    /\ ~Live(RetentionKey("orgB"))
    /\ retentionQueries["orgB"] > 0
    /\ now = RETENTION_TTL

\* the values storage has held for the row of lookup fn during the last
\* SESSION_CACHE_TTL seconds
HeldWithinTTL(fn) ==
    {db[fn]} \cup
        (IF dbChangedAt[fn] >= 0 /\ now - dbChangedAt[fn] <= SESSION_CACHE_TTL
         THEN {Row, NULL} ELSE {})

\* C17: every value a cached lookup returns is the value storage held at some
\* instant no more than SESSION_CACHE_TTL before the return.
C17_StaleAtMostTTL ==
    [][(lastReturn' # lastReturn /\ lastReturn'.outcome = "ok"
            /\ lastReturn'.fn \in CachedLookups) =>
                lastReturn'.value \in HeldWithinTTL(lastReturn'.fn)]_vars

\* C18: the cache never holds more than maxKeys entries, and a lookup whose
\* storage query has succeeded returns its result and has it cached, however
\* full the cache is.
C18_FullCacheNeverFails ==
    /\ [](Cardinality(DOMAIN cache) + otherKeys <= maxKeys)
    /\ [][\A l \in BagToSet(lookups) :
            (l.pc = "answered" /\ lookups' = lookups (-) SetToBag({l})) =>
                /\ lastReturn'.outcome = "ok"
                /\ lastReturn'.value = l.row
                /\ l.fn \in CachedLookups =>
                        /\ CacheKey(l.fn) \in DOMAIN cache'
                        /\ cache'[CacheKey(l.fn)].value = l.row]_vars

(***************************************************************************)
(* Claims about the redirect policy                                        *)
(***************************************************************************)
\* the value of the redirect parameter of a redirectUrl
RedirectParamOf(url, guid) ==
    SubSeq(url,
           Len(Origin \o CHALLENGE_PATH_PREFIX \o encodeURIComponent(guid)
                \o REDIRECT_PARAM) + 1,
           Len(url))

\* C8: a denied request whose path starts with /auth/resource/ gets no
\* redirect; any other gets prefix + resourceId + "?redirect=" + the
\* encoded original URL (one decode of the parameter gives the original URL
\* back), and the policy applied to a request for that redirect gives no
\* redirect.
C8_RedirectPolicy ==
    phase = "answered" =>
        IF StartsWith(request.path, CHALLENGE_PATH_PREFIX)
        THEN ~response.redirect
        ELSE /\ response.redirect
             /\ StartsWith(response.url,
                    Origin \o CHALLENGE_PATH_PREFIX
                        \o encodeURIComponent(request.guid) \o REDIRECT_PARAM)
             /\ decodeURIComponent(RedirectParamOf(response.url, request.guid))
                    = OriginalRequestURL(request)
             /\ ~Denial(RequestFor(response.url, request.guid)).redirect

\* C8 witness: the request for a redirect the policy issued was denied
\* without a redirect.
C8_Witness ==
    /\ phase = "answered"
    /\ hops = 2
    /\ redirects = 1
    /\ ~response.redirect
    /\ StartsWith(request.path, CHALLENGE_PATH_PREFIX)

\* C9: in a chain of followed redirects the redirect URL stays within the
\* length of one embedding of the chain's first URL, and at most one
\* redirect is issued for the same underlying target.
C9_BoundedChain ==
    /\ redirects <= 1
    /\ Len(response.url) <=
            Len(Origin) + Len(CHALLENGE_PATH_PREFIX) + 3 * Len(request.guid)
                + Len(REDIRECT_PARAM) + 3 * Len(target)

\* C9 witness: a chain whose first request was redirected has ended at its
\* second hop with a plain denial.
C9_Witness ==
    /\ phase = "answered"
    /\ hops = 2
    /\ redirects = 1
    /\ response = NoResponse
    /\ ~StartsWith(SubSeq(target, Len(Origin) + 1, Len(target)),
                   CHALLENGE_PATH_PREFIX)

(***************************************************************************)
(* Claims about the log cleanup                                            *)
(***************************************************************************)
\* the cleanup the running sweep awaits is one with the sentinel retention
SentinelCleanup ==
    /\ sweep.pc = "deleting"
    /\ Head(sweep.todo).retentionDays = RETENTION_SENTINEL

\* C24: for the sentinel retention value calculateCutoffTimestamp returns
\* 00:00:00 UTC on 1 January of the year before the current year, the
\* current year taken in UTC, at every instant.  The code takes the year of
\* the local time (getFullYear), so in a process ahead of UTC the cutoff
\* moves a year forward before the UTC year turns, and in a process behind
\* UTC it stays a year back after it: the statement is violated.
C24_SentinelCutoffUTC ==
    SentinelCleanup => cutoffTimestamp = DateUTC(getUTCFullYear - 1)

\* C25: a failed storage operation of a sweep is logged and the sweep still
\* performs every remaining cleanup, and the next tick runs whatever failed
\* in the previous one.  A sweep whose select of the orgs resolves attempts
\* every cleanup, whichever deletes fail; but a rejected select aborts the
\* sweep with a rejection nothing handles, which can end the process and
\* its interval: the statement is violated.
C25_SweepSurvivesFailure ==
    /\ sweep.outcome = "completed"
            => sweep.attempted = TaskSet(SweepTasks(OrgRows))
    /\ sweep.outcome = "aborted" => processUp

(***************************************************************************)
(* Claims about what logRequestAudit skips                                 *)
(***************************************************************************)
\* the records of a batch that carry no orgId
WithoutOrg(logs) == {i \in 1..Len(logs) : logs[i].orgId = NoOrg}

\* C26: a decision without an orgId is never appended to auditLogBuffer and
\* never reaches a bulk insert.  logRequestAudit tests data.orgId only to
\* decide on the retention check (line 230) and pushes every decision that
\* is not stopped by a cached retention of 0, so the statement is violated.
C26_NoOrgSkipped ==
    /\ WithoutOrg(auditLogBuffer) = {}
    /\ \A f \in inflightFlushes : WithoutOrg(f.logsToWrite) = {}

\* C27: with DISABLE_AUDIT_LOGGING true, logRequestAudit buffers nothing and
\* no audit bulk insert is ever issued.  logRequestAudit.ts never reads the
\* flag, so the statement is violated.
C27_FlagStopsAudit ==
    disableAuditLogging => (auditLogBuffer = <<>> /\ bulkWrites = 0)

FilledWithinTTL(c) ==
    /\ FilterCallKey(c) \in DOMAIN filterFilledAt
    /\ now < filterFilledAt[FilterCallKey(c)] + FILTER_CACHE_TTL

\* C29: a cached filter-attribute result is returned only to requests with
\* the orgId and the start and end buckets of the request that populated
\* it, and a request whose key was filled less than 900 s ago starts none
\* of the five queries.
C29_FilterCacheIsolated ==
    /\ [](lastFilter.hit =>
            /\ lastFilter.result.orgId = lastFilter.orgId
            /\ Bucket(lastFilter.result.timeStart) =
                    Bucket(lastFilter.timeStart)
            /\ Bucket(lastFilter.result.timeEnd) = Bucket(lastFilter.timeEnd))
    /\ [][\A c \in BagToSet(filterCalls') :
            FilledWithinTTL(c) =>
                CopiesIn(c, filterCalls') <= CopiesIn(c, filterCalls)]_vars

\* C29 witness: a request was answered with the result another request of
\* its org and buckets had computed for a different time range, while the
\* result of the other org for the same buckets is cached as well.
C29_Witness ==
    /\ lastFilter.hit
    /\ lastFilter.result.timeStart # lastFilter.timeStart
    /\ \E o \in FilterOrgIds \ {lastFilter.orgId} :
            Live(FilterCacheKey(o, lastFilter.timeStart, lastFilter.timeEnd))

\* C30: after getUser has fetched an existing user, requests for that user
\* within 60 s are answered from the cache, so that at most one user query
\* per userId is issued per 60 s window under any request pattern.  getUser
\* has no in-flight guard: requests that arrive while the first query is
\* awaited miss the cache and each issues its own query, so the statement is
\* violated.
C30_OneUserQueryPerWindow ==
    [][\A u \in StoredUsers :
        userQueriedAt'[u] # userQueriedAt[u] \/
        (\E c \in BagToSet(userCalls') : c.userId = u /\
            CopiesIn(c, userCalls') > CopiesIn(c, userCalls))
        => (userQueriedAt[u] < 0 \/
            now - userQueriedAt[u] >= USER_CACHE_TTL)]_vars

(***************************************************************************)
(* Claims about re-queueing, conservation and scheduling                   *)
(***************************************************************************)
\* C31: when a bulk write fails with retries remaining, the failed batch is
\* put back at the front of the buffer in its original order, ahead of every
\* record recorded since the batch was taken, and exactly one retry is
\* scheduled for that failure.
C31_RequeueAtFront ==
    [][\A f \in inflightFlushes \ inflightFlushes' :
        (failedFlushCount' = failedFlushCount + 1 /\ RetriesLeft(f.retryCount))
        => /\ auditLogBuffer' = f.logsToWrite \o auditLogBuffer
           /\ retryTimers' =
                [retryTimers EXCEPT ![f.retryCount + 1] = @ + 1]
           /\ lost' = lost]_vars

\* C31 witness: a failed batch of BATCH_SIZE records stands in front of a
\* record pushed while its insert was awaited, with its retry pending.
C31_Witness ==
    /\ Len(auditLogBuffer) > BATCH_SIZE
    /\ \A i \in 1..BATCH_SIZE :
            /\ auditLogBuffer[i].id = i
            /\ attempts[i] = 1
    /\ attempts[auditLogBuffer[BATCH_SIZE + 1].id] = 0
    /\ retryTimers[1] = 1
    /\ failedFlushCount = 1

\* C32: when the retention value of the org is not cached, logRequestAudit
\* does not wait for the lookup: the call itself buffers the decision, with
\* the lookup still in flight when the call returns, both when the call
\* started the lookup and when it found one in flight.
C32_NoWaitOnMiss ==
    [][\A o \in Orgs :
        (/\ lastCall'.kind = "call"
         /\ lastCall'.orgId = o
         /\ (lastCall' # lastCall \/ nextId' # nextId)
         /\ ~Live(RetentionKey(o)))
        => /\ nextId' = nextId + 1
           /\ nextId \in Ids(auditLogBuffer') \cup
                    UNION {Ids(f.logsToWrite) : f \in inflightFlushes'}
           /\ lastCall'.buffered
           /\ o \in inflightRetentionChecks'
           /\ retentionQueries'[o] > 0
           /\ cache' = cache]_vars

\* C32 witness: a call that found the lookup of its org in flight has
\* buffered its decision, and the lookup is still in flight.
C32_Witness ==
    /\ lastCall.kind = "call"
    /\ lastCall.cached = -1
    /\ lastCall.checking
    /\ lastCall.buffered
    /\ lastCall.orgId \in inflightRetentionChecks
    /\ nextId - 1 \in Ids(auditLogBuffer) \cup InFlightIds

\* C33: for a retention of d days other than the sentinel, cleanUpOldLogs
\* deletes exactly the request-audit records of its org whose timestamp is
\* strictly less than now - d * 86400 (or, when the delete fails, none);
\* records of other orgs and records at or after the cutoff stay.
C33_RollingCleanupExact ==
    [][(/\ sweep.pc = "deleting"
        /\ Head(sweep.todo).category = "request"
        /\ Head(sweep.todo).retentionDays # RETENTION_SENTINEL)
       => LET task == Head(sweep.todo)
              old(r) == /\ r.orgId = task.orgId
                        /\ r.timestamp < now - task.retentionDays * 86400
          IN  requestAuditLog' \in
                {requestAuditLog, {r \in requestAuditLog : ~old(r)}}]_vars

\* C33 witness: the first sweep has cleaned the request logs of orgB: its
\* record older than the cutoff is gone, its record at the cutoff and the
\* records of the other orgs are still there.
C33_Witness ==
    /\ sweepTicks = 1
    /\ [orgId |-> "orgB", category |-> "request", retentionDays |-> 30]
            \in sweep.attempted
    /\ [orgId |-> "orgB", timestamp |-> now - 30 * 86400] \in requestAuditLog
    /\ \A r \in requestAuditLog :
            r.orgId = "orgB" => r.timestamp >= now - 30 * 86400
    /\ \E r \in requestAuditLog : r.orgId = "orgA"
    /\ Cardinality({r \in requestAuditLog : r.orgId = "orgC"}) = 4

\* the cleanups the claim asks of a sweep: for every org and category whose
\* own retention is above 0, one with that retention
DueCleanups ==
    LET all == {[orgId |-> o, category |-> cat,
                 retentionDays |-> settingsLogRetentionDays(o, cat)] :
                    o \in {OrgRows[i] : i \in 1..Len(OrgRows)},
                    cat \in {"action", "access", "request"}}
    IN  {t \in all : t.retentionDays > 0}

\* C34: in a sweep every log category of every org is cleaned with the
\* retention of that category, and if and only if that retention is above
\* 0; an org whose three settings are 0 or less is not touched.
C34_PerCategoryRetention ==
    /\ sweep.attempted \subseteq DueCleanups
    /\ sweep.outcome = "completed" => sweep.attempted = DueCleanups
    /\ sweep.pc = "deleting" =>
            /\ Head(sweep.todo) \in DueCleanups
            /\ Head(sweep.todo).category = "request" =>
                    cutoffTimestamp =
                        calculateCutoffTimestamp(Head(sweep.todo).retentionDays)
    /\ \A r \in StoredLogs(now - sweepTicks * SWEEP_PERIOD) :
            settingsLogRetentionDaysRequest(r.orgId) <= 0
                => r \in requestAuditLog

\* C34 witness: a sweep has completed after cleaning the action logs of orgB
\* with 7 days and its request logs with 30.
C34_Witness ==
    /\ sweep.outcome = "completed"
    /\ [orgId |-> "orgB", category |-> "action", retentionDays |-> 7]
            \in sweep.attempted
    /\ [orgId |-> "orgB", category |-> "request", retentionDays |-> 30]
            \in sweep.attempted
    /\ \A t \in sweep.attempted : t.orgId # "orgD"

\* how many times record i occurs in a batch
Occurrences(logs, i) == Cardinality({k \in 1..Len(logs) : logs[k].id = i})

\* how many in-flight batches hold record i
InFlightCopies(i) ==
    Cardinality({f \in inflightFlushes : i \in Ids(f.logsToWrite)})

C36_DroppedAfterOwnAttempts == \A i \in lost : attempts[i] >= maxRetries + 1

(***************************************************************************)
(* Claims about concurrent lookups, pending flushes and negative caching   *)
(***************************************************************************)
\* C37: when lookups of one key missed the cache concurrently and the row
\* changed between their reads, a call that returns with the older read does
\* not replace the cached result of the latest read.
C37_NewerReadStays ==
    [][\A l \in BagToSet(lookups) :
        (/\ l.fn \in CachedLookups
         /\ l.pc = "answered"
         /\ lookups' = lookups (-) SetToBag({l})
         /\ CacheHas(cache, now, CacheKey(l.fn))
         /\ CacheGet(cache, now, CacheKey(l.fn)) = lastRead[l.fn]
         /\ l.row # lastRead[l.fn])
        => CacheGet(cache', now, CacheKey(l.fn)) = lastRead[l.fn]]_vars

\* C38: whenever auditLogBuffer holds records, a flush of them is pending:
\* the flush timer is set or a retry timer is pending.
C38_FlushPending ==
    auditLogBuffer # <<>> =>
        (flushTimer \/ \E rc \in 1..maxRetries : retryTimers[rc] > 0)

\* C38 witness: shutdownAuditLogger has cleared the flush timer, its flush
\* failed, and the records wait in the buffer for the retry timer.
C38_Witness ==
    /\ auditLogBuffer # <<>>
    /\ ~flushTimer
    /\ shutdownState = "stopped"
    /\ retryTimers[1] = 1

\* C39: while no bulk write fails, the buffer holds fewer than BATCH_SIZE
\* records after every logRequestAudit call, the call that brings it to
\* BATCH_SIZE hands the whole buffer to one bulk insert in the same step,
\* and no bulk insert holds more than BATCH_SIZE records.
C39_BelowBatchSize ==
    /\ [](/\ Len(auditLogBuffer) < BATCH_SIZE
          /\ \A f \in inflightFlushes :
                Len(f.logsToWrite) \in 1..BATCH_SIZE)
    /\ [][(nextId' = nextId + 1 /\ Len(auditLogBuffer) = BATCH_SIZE - 1)
            => /\ auditLogBuffer' = <<>>
               /\ \E f \in inflightFlushes' \ inflightFlushes :
                    /\ Len(f.logsToWrite) = BATCH_SIZE
                    /\ nextId \in Ids(f.logsToWrite)
                    /\ Ids(auditLogBuffer) \subseteq Ids(f.logsToWrite)]_vars

\* C39 witness: the call that appended the fourth record has emptied the
\* buffer into a bulk insert of BATCH_SIZE records, the second of that size.
C39_Witness ==
    /\ lastCall.kind = "call"
    /\ nextId = 2 * BATCH_SIZE + 1
    /\ auditLogBuffer = <<>>
    /\ bulkWrites = 2
    /\ \E f \in inflightFlushes :
            Ids(f.logsToWrite) = (BATCH_SIZE + 1)..(2 * BATCH_SIZE)
    /\ \A i \in 1..BATCH_SIZE : inserted[i] = 1

\* the cache holds a not-found result of lookup fn that has not expired
NullCached(fn) ==
    Live(CacheKey(fn)) /\ CacheGet(cache, now, CacheKey(fn)) = NULL

\* C40: the four cached lookups store a not-found result for
\* SESSION_CACHE_TTL and answer from it without a query until it expires,
\* whatever storage holds by then; getUser and getResourceAuthInfo never
\* store a key without a row, so every answer for such a key comes from a
\* query.
C40_NotFoundCaching ==
    /\ [](/\ \A u \in UserIds \ StoredUsers :
                UserCacheKey(u) \notin DOMAIN cache
          /\ \A g \in ResourceGuids \ StoredResources :
                ResourceCacheKey(g) \notin DOMAIN cache
          /\ lastUser.userId \in UserIds \ StoredUsers
                => ~lastUser.hit /\ lastUser.status = 404
          /\ lastResource.resourceGuid \in ResourceGuids \ StoredResources
                => ~lastResource.hit /\ lastResource.status \in {404, 500})
    /\ [][\A l \in BagToSet(lookups) :
            (/\ l.fn \in CachedLookups
             /\ l.pc = "answered"
             /\ l.row = NULL
             /\ lookups' = lookups (-) SetToBag({l})
             /\ ~CacheFull(cache, otherKeys))
            => /\ CacheKey(l.fn) \in DOMAIN cache'
               /\ cache'[CacheKey(l.fn)] =
                    [value |-> NULL, expiresAt |-> now + SESSION_CACHE_TTL]]_vars
    /\ [][\A fn \in CachedLookups :
            NullCached(fn)
            => /\ Pending(lookups', fn) <= Pending(lookups, fn)
               /\ (lookups' = lookups /\ lastReturn' # lastReturn
                        /\ lastReturn'.fn = fn)
                    => lastReturn'.value = NULL /\ lastReturn'.hit]_vars

\* C40 witness: a lookup has been answered "not found" from the cache
\* although the row was created after the entry was written.
C40_Witness ==
    /\ lastReturn.fn \in CachedLookups
    /\ lastReturn.hit
    /\ lastReturn.value = NULL
    /\ db[lastReturn.fn] = Row
    /\ NullCached(lastReturn.fn)
    /\ dbChangedAt[lastReturn.fn] >= 0

=============================================================================
